---- MODULE Spec2Model ----
(***************************************************************************)
(* Model of src/discovery.js: discoverLights(), the Avahi/D-Bus browse     *)
(* session of the Elgato lights extension.                                 *)
(*                                                                         *)
(* sess      the closure variables of one discoverLights call              *)
(* platform  the injected platform and the bus: the timer, the calls the   *)
(*           session has issued, the signals the daemon may still deliver  *)
(* promise   the invocations of the promise's resolve and reject           *)
(* trace     history of the statements executed (counters on source lines) *)
(* pc        position of the caller: before or after the executor ran      *)
(***************************************************************************)
EXTENDS Integers, Sequences, FiniteSets, TLC

VARIABLES sess, platform, promise, trace, pc, direct, avahi, toggle, item, elgatoLight, parser

vars == <<sess, platform, promise, trace, pc, direct, avahi, toggle, item, elgatoLight, parser>>

\* the state of the programs other than discoverLights
others == <<avahi, toggle, item, elgatoLight, parser>>

(* ------------------------------ bounds -------------------------------- *)

\* signals the daemon delivers to one session
MaxSignals == 4
\* ItemNew signals among them (each one starts at most one resolver)
MaxItemNew == 2

(* ------------------------------ values -------------------------------- *)

null == "null"
NoId == 0

DISCOVERY_TIMEOUT_MS == 5000

\* the path the daemon gives this session's browser, and another browser's
OwnBrowser == "/b/1"
OtherBrowser == "/b/2"
BrowserPaths == {OwnBrowser, OtherBrowser}

\* the n-th ServiceResolverNew call of the session gets the path /r/n;
\* /r/0 is a resolver of some other client of the daemon
ResolverPath(n) == "/r/" \o ToString(n)
OtherResolver == ResolverPath(0)
ResolverPaths == {ResolverPath(n) : n \in 0..MaxItemNew}

ServiceNames == {"Key Light A", "Key Light B"}
Addresses == {"192.168.1.100", "192.168.1.101"}
Ports == {9123}
BrowserErrors == {"Network unreachable", "Timeout reached"}

\* ItemNew parameters [iface, protocol, name, type, domain]
ItemParams == {<<2, 0, "Key Light A", "_elg._tcp", "local">>}

\* Found parameters, reduced to the positions the handler reads:
\* params[2] (name), params[7] (address), params[8] (port)
FoundParams == [name : ServiceNames, address : Addresses, port : Ports]

NoError == <<>>

(* ------------------------- the session's state ------------------------ *)

\* the state after the declarations of the executor (before getSystemBus)
InitSess ==
  [ lights |-> <<>>,
    browserPath |-> null,
    browserSignalId |-> NoId,
    allForNowSignalId |-> NoId,
    failureSignalId |-> NoId,
    resolverFoundSignalId |-> NoId,
    resolverFailureSignalId |-> NoId,
    resolverPaths |-> {},
    freedResolvers |-> {},
    completedResolvers |-> {},
    timeoutId |-> NoId,
    bus |-> null,
    completed |-> FALSE,
    allForNowReceived |-> FALSE,
    pendingResolvers |-> 0,
    bufferedBrowserSignals |-> <<>>,
    bufferedResolverSignals |-> <<>> ]

InitPlatform ==
  [ timer |-> "none",
    timerMs |-> 0,
    removeTimeoutCalls |-> 0,
    subscribed |-> {},
    unsubscribed |-> {},
    browserCall |-> "none",
    browserOutcome |-> "ok",
    resolverCalls |-> {},
    nextResolver |-> 1,
    created |-> {},
    freeCalls |-> [p \in BrowserPaths \cup ResolverPaths |-> 0],
    signals |-> 0,
    itemNews |-> 0 ]

InitPromise ==
  [ resolveCalls |-> 0,
    rejectCalls |-> 0,
    state |-> "pending",
    value |-> <<>>,
    reason |-> NoError ]

\* what cleanup leaves behind, as resolve or reject finds it: the handles of
\* the session and what the platform was asked to remove, unsubscribe and free
Snapshot(s, p, cleanups) ==
  [cleanups |-> cleanups,
   sess |-> [browserSignalId |-> s.browserSignalId,
             allForNowSignalId |-> s.allForNowSignalId,
             failureSignalId |-> s.failureSignalId,
             resolverFoundSignalId |-> s.resolverFoundSignalId,
             resolverFailureSignalId |-> s.resolverFailureSignalId,
             timeoutId |-> s.timeoutId,
             browserPath |-> s.browserPath,
             resolverPaths |-> s.resolverPaths],
   platform |-> [timer |-> p.timer,
                 removeTimeoutCalls |-> p.removeTimeoutCalls,
                 unsubscribed |-> p.unsubscribed,
                 browserCall |-> p.browserCall,
                 browserOutcome |-> p.browserOutcome,
                 created |-> p.created,
                 freeCalls |-> p.freeCalls]]

InitTrace ==
  [ completions |-> 0,
    cleanups |-> 0,
    decrements |-> [p \in ResolverPaths |-> 0],
    lightSets |-> [p \in ResolverPaths |-> 0],
    terminals |-> [p \in ResolverPaths |-> 0],
    found |-> {},
    skipped |-> {},
    failed |-> {},
    ignored |-> {},
    pendingAtAllForNow |-> -1,
    browserFailures |-> <<>>,
    replayed |-> {},
    browserNewCalls |-> 0,
    subscribedAtBrowserNew |-> {},
    atSettle |-> Snapshot(InitSess, InitPlatform, 0) ]

(* --------------------------- isAvahiAvailable -------------------------- *)

\* calls of isAvahiAvailable made in a run
MaxAvahiCalls == 3

\* one call: where it is, what getSystemBus, bus.call and call_finish did,
\* and the promise the async function returned
InitAvahiCall ==
  [pc |-> "idle", bus |-> "none", call |-> "none", reply |-> "none",
   state |-> "pending", value |-> null]

\* the body of isAvahiAvailable up to its return: the catch returns false
\* when getSystemBus throws; an exception of bus.call is thrown inside the
\* executor of the promise that is returned without await, so the promise
\* is rejected and the catch never sees it
IsAvahiAvailable(c, connect, call) ==
  IF connect = "throws"
    THEN [c EXCEPT !.pc = "done", !.bus = connect, !.state = "fulfilled", !.value = FALSE]
    ELSE IF call = "throws"
      THEN [c EXCEPT !.pc = "done", !.bus = connect, !.call = call, !.state = "rejected"]
      ELSE [c EXCEPT !.pc = "inflight", !.bus = connect, !.call = call]

\* the callback of bus.call: resolve(true) when call_finish returns,
\* resolve(false) when it throws
OnVersionReply(c, reply) ==
  [c EXCEPT !.pc = "done", !.reply = reply,
            !.state = "fulfilled", !.value = (reply = "valid")]

(* ----------------------------- ElgatoToggle ---------------------------- *)

\* asynchronous operations of one toggle, _initializeAsync included
MaxTasks == 3

\* slider changes a user makes on one LightControlItem
MaxChanges == 3

\* operations of one ElgatoLight in progress together, and the largest
\* maxRetries a caller passes to _sendWithRetry
MaxOps == 1
MaxRetries == 3

\* lines of avahi-browse output given to parseAvahiOutput
MaxLines == 2

LightA == [name |-> "Key Light A", host |-> "192.168.1.100", port |-> 9123]
LightB == [name |-> "Key Light B", host |-> "192.168.1.101", port |-> 9123]

\* what discoverLights can resolve with
DiscoveredLists == {<<>>, <<LightA>>, <<LightB>>, <<LightA, LightB>>}

\* values of the cached-lights setting when the toggle is constructed, as the
\* array the JSON text holds; an entry with an empty host is not a valid config
CachedSettings == {<<>>, <<LightA>>, <<[name |-> "Key Light B", host |-> "", port |-> 9123]>>}

\* isValidLightConfig, for entries that are objects with the three fields
IsValidLightConfig(light) ==
  /\ light.name # ""
  /\ light.host # ""
  /\ light.port >= 1
  /\ light.port <= 65535

\* parseCachedLights, for a text that holds an array
ParseCachedLights(json) == SelectSeq(json, IsValidLightConfig)

\* new ElgatoLight(name, host, port)
ElgatoLight(data) ==
  [name |-> data.name, host |-> data.host, port |-> data.port,
   on |-> FALSE, displayName |-> data.name]

\* the fields _init sets, before it calls _initializeAsync; tasks are the
\* asynchronous operations started, each with the await it stands at
InitToggle ==
  [constructed |-> FALSE,
   isDiscovering |-> FALSE,
   destroyed |-> FALSE,
   lights |-> <<>>,
   lightItems |-> 0,
   statusText |-> "No lights found",
   reactive |-> TRUE,
   connected |-> FALSE,
   cached |-> <<>>,
   tasks |-> <<>>,
   trace |-> [menuBuilds |-> 0, statusWrites |-> 0, cacheWrites |-> 0,
              stateWrites |-> 0, discovered |-> <<>>, resolves |-> 0]]

SetPc(t, i, pc1) == [t EXCEPT !.tasks[i].pc = pc1]

SetStatus(t, text) ==
  [t EXCEPT !.statusText = text, !.trace.statusWrites = @ + 1]

\* _updateUI: the items are destroyed and made anew from _lights
UpdateUI(t) ==
  LET t1 == [t EXCEPT !.lightItems = Len(t.lights), !.trace.menuBuilds = @ + 1]
  IN IF Len(t.lights) = 0 THEN SetStatus(t1, "No lights found") ELSE t1

\* _createLightsFromData
CreateLightsFromData(t, lightsData) ==
  UpdateUI([t EXCEPT !.lights = [k \in 1..Len(lightsData) |-> ElgatoLight(lightsData[k])],
                     !.lightItems = 0])

\* _saveCachedLights: the name, host and port of each light, as JSON
SaveCachedLights(t) ==
  [t EXCEPT !.cached = [k \in 1..Len(t.lights) |->
                          [name |-> t.lights[k].name, host |-> t.lights[k].host,
                           port |-> t.lights[k].port]],
            !.trace.cacheWrites = @ + 1]

\* _refreshLightStates up to its await: task i waits for the fetches at pc1,
\* or goes on at pc2 when the toggle is destroyed
RefreshLightStates(t, i, pc1, pc2) ==
  IF t.destroyed THEN SetPc(t, i, pc2) ELSE SetPc(t, i, pc1)

\* _refreshLightStates after Promise.allSettled
AfterRefresh(t, i, pc2) ==
  SetPc(IF ~t.destroyed THEN UpdateUI(t) ELSE t, i, pc2)

\* _loadCachedLights up to its await
LoadCachedLights(t, i) ==
  LET lightsData == ParseCachedLights(t.cached)
  IN IF Len(lightsData) > 0
       THEN RefreshLightStates(CreateLightsFromData(t, lightsData), i, "loadRefresh", "loaded")
       ELSE SetPc(t, i, "loaded")

\* _initializeAsync up to its first await
InitializeAsync(t) ==
  IF t.isDiscovering \/ t.destroyed
    THEN t
    ELSE LoadCachedLights(
           [t EXCEPT !.isDiscovering = TRUE,
                     !.tasks = Append(@, [kind |-> "init", pc |-> "start"])],
           Len(t.tasks) + 1)

\* _init: the fields, the two click handlers, then _initializeAsync()
Construct(t, cached) ==
  InitializeAsync([t EXCEPT !.constructed = TRUE, !.connected = TRUE, !.cached = cached])

\* _discoverLights up to the await of isAvahiAvailable()
DiscoverLightsStart(t, i) ==
  IF t.destroyed
    THEN SetPc(t, i, "finally")
    ELSE SetPc(SetStatus(t, "Discovering..."), i, "avahi")

\* the catch of _discoverLights
DiscoverLightsCatch(t, i) ==
  SetPc(IF ~t.destroyed THEN SetStatus(t, "Discovery failed") ELSE t, i, "finally")

\* _discoverLights after isAvahiAvailable() settled
AfterAvahi(t, i, available) ==
  IF available = "rejects" THEN DiscoverLightsCatch(t, i)
  ELSE IF available = "false"
    THEN SetPc(IF t.destroyed THEN t ELSE SetStatus(t, "Avahi daemon not running"),
               i, "finally")
  ELSE IF t.destroyed THEN SetPc(t, i, "finally")
  ELSE SetPc(t, i, "discover")

\* (variant: no check of _destroyed after the await)
AfterDiscoverUnguarded(t, i, discovered) ==
  LET t0 == [t EXCEPT !.trace.discovered = discovered, !.trace.resolves = @ + 1]
  IN IF Len(discovered) = 0
       THEN SetPc(SetStatus(t0, "No lights found"), i, "finally")
       ELSE RefreshLightStates(
              SaveCachedLights(CreateLightsFromData(t0, discovered)),
              i, "refresh", "finally")

\* _discoverLights after discoverLights() resolved with `discovered`
AfterDiscover(t, i, discovered) ==
  IF t.destroyed
    THEN SetPc(t, i, "finally")
    ELSE LET t0 == [t EXCEPT !.trace.discovered = discovered, !.trace.resolves = @ + 1]
         IN IF Len(discovered) = 0
              THEN SetPc(SetStatus(t0, "No lights found"), i, "finally")
              ELSE RefreshLightStates(
                     SaveCachedLights(CreateLightsFromData(t0, discovered)),
                     i, "refresh", "finally")

\* _initializeAsync after _loadCachedLights()
AfterLoad(t, i) ==
  IF t.destroyed THEN SetPc(t, i, "finally") ELSE DiscoverLightsStart(t, i)

\* the finally blocks of _initializeAsync and _onRefreshClicked
Finally(t, i) ==
  LET t1 == SetPc([t EXCEPT !.isDiscovering = FALSE], i, "done")
  IN IF t.tasks[i].kind = "refresh" /\ ~t.destroyed
       THEN [t1 EXCEPT !.reactive = TRUE]
       ELSE t1

\* (variant: no check of _isDiscovering)
OnRefreshClickedUnguarded(t) ==
  IF t.destroyed
    THEN t
    ELSE DiscoverLightsStart(
           [t EXCEPT !.isDiscovering = TRUE,
                     !.reactive = FALSE,
                     !.tasks = Append(@, [kind |-> "refresh", pc |-> "start"])],
           Len(t.tasks) + 1)

\* _onRefreshClicked up to its await
OnRefreshClicked(t) ==
  IF t.isDiscovering \/ t.destroyed
    THEN t
    ELSE DiscoverLightsStart(
           [t EXCEPT !.isDiscovering = TRUE,
                     !.reactive = FALSE,
                     !.tasks = Append(@, [kind |-> "refresh", pc |-> "start"])],
           Len(t.tasks) + 1)

\* _onToggleClicked up to Promise.allSettled
OnToggleClicked(t) ==
  IF t.destroyed \/ Len(t.lights) = 0
    THEN t
    ELSE [t EXCEPT !.tasks = Append(@, [kind |-> "toggle", pc |-> "toggling"])]

\* _onToggleClicked after Promise.allSettled: item.updateState() for the
\* items and _updateToggleState()
AfterToggle(t, i) ==
  SetPc(IF t.destroyed THEN t ELSE [t EXCEPT !.trace.stateWrites = @ + 1], i, "done")

\* destroy
Destroy(t) ==
  [t EXCEPT !.destroyed = TRUE, !.connected = FALSE, !.lightItems = 0]

\* a second session given the same signals and replies, in which a signal that
\* arrives before the reply that makes its path known is delivered right
\* after that reply instead; earlyBrowser and earlyResolver are the signals
\* still to be delivered to it
InitDirect ==
  [world |-> [sess |-> InitSess, platform |-> InitPlatform,
              promise |-> InitPromise, trace |-> InitTrace],
   earlyBrowser |-> <<>>,
   earlyResolver |-> <<>>,
   lateBrowser |-> FALSE,
   lateResolver |-> FALSE]

\* the second session exists once the pair run called discoverLights; until
\* then it is as constructed
Direct == IF direct = <<>> THEN InitDirect ELSE direct[1]

World == [sess |-> sess, platform |-> platform, promise |-> promise, trace |-> trace]

Commit(w) ==
  \E v \in {w} :
    /\ sess' = v.sess
    /\ platform' = v.platform
    /\ promise' = v.promise
    /\ trace' = v.trace
    /\ UNCHANGED direct
    /\ UNCHANGED others

\* statement sequencing: F applied to the state that v evaluates to
AndThen(v, F(_)) == CHOOSE r \in {F(x) : x \in {v}} : TRUE

(* -------------------------- LightControlItem --------------------------- *)

\* Temperature and Brightness ranges of the conversion utilities
MIN_API == 143
MAX_API == 344
MIN_K == 2900
MAX_K == 7000
Brightness_MIN == 3
Brightness_MAX == 100

\* a slider position is the fraction <<numerator, denominator>> in [0, 1]
SliderPositions == {<<0, 1>>, <<1, 2>>, <<1, 1>>}

SamePosition(a, b) == a[1] * b[2] = b[1] * a[2]

\* the state of the light an updateState() call finds
LightStates ==
  {[brightness |-> 50, temperature |-> 200],
   [brightness |-> 3, temperature |-> 344],
   [brightness |-> 80, temperature |-> 143]}

Sliders == {"brightness", "temperature"}

\* Math.round(n / d) for n >= 0, d > 0
Round(n, d) == (2 * n + d) \div (2 * d)

BrightnessToSlider(brightness) ==
  <<brightness - Brightness_MIN, Brightness_MAX - Brightness_MIN>>

BrightnessFromSlider(slider) ==
  Round(Brightness_MIN * slider[2] + slider[1] * (Brightness_MAX - Brightness_MIN),
        slider[2])

ApiToSlider(api) == <<api - MIN_API, MAX_API - MIN_API>>

SliderToApi(slider) ==
  Round(MIN_API * slider[2] + slider[1] * (MAX_API - MIN_API), slider[2])

ApiToKelvin(api) ==
  Round(MAX_K * (MAX_API - MIN_API) - (api - MIN_API) * (MAX_K - MIN_K),
        MAX_API - MIN_API)

\* the item after _init for a light just constructed: the sliders stand at the
\* light's brightness and temperature, no timeout was ever armed (0 is the
\* absent id), sources are GLib's armed timeouts, and trace.calls are the
\* setBrightness / setTemperature calls made on the light
InitItem ==
  [light |-> [brightness |-> 50, temperature |-> 200],
   updating |-> FALSE,
   destroyed |-> FALSE,
   signals |-> Sliders,
   brightnessSlider |-> BrightnessToSlider(50),
   brightnessLabel |-> 50,
   tempSlider |-> ApiToSlider(200),
   tempLabel |-> ApiToKelvin(200),
   brightnessTimeout |-> 0,
   tempTimeout |-> 0,
   sources |-> {},
   nextId |-> 1,
   trace |-> [calls |-> <<>>,
              changes |-> 0,
              bursts |-> [k \in Sliders |-> 0],
              lastPosition |-> [k \in Sliders |-> <<0, 1>>]]]

\* GLib.timeout_add: arms a source with a fresh id (it.nextId)
TimeoutAdd(it, slider, value) ==
  [it EXCEPT !.sources = @ \cup {[id |-> it.nextId, slider |-> slider, value |-> value]},
             !.nextId = @ + 1]

\* GLib.source_remove
SourceRemove(it, id) == [it EXCEPT !.sources = {s \in @ : s.id # id}]

\* (variant: the previous timeout is not removed)
OnBrightnessChangedKeepsTimer(it) ==
  IF it.updating THEN it
  ELSE LET brightness == BrightnessFromSlider(it.brightnessSlider)
           it1 == [it EXCEPT !.brightnessLabel = brightness]
       IN  [TimeoutAdd(it1, "brightness", brightness)
              EXCEPT !.brightnessTimeout = it1.nextId]

OnBrightnessChanged(it) ==
  IF it.updating THEN it
  ELSE LET brightness == BrightnessFromSlider(it.brightnessSlider)
           it1 == [it EXCEPT !.brightnessLabel = brightness]
           it2 == IF it1.brightnessTimeout # 0
                    THEN SourceRemove(it1, it1.brightnessTimeout)
                    ELSE it1
       IN  [TimeoutAdd(it2, "brightness", brightness)
              EXCEPT !.brightnessTimeout = it2.nextId]

OnTemperatureChanged(it) ==
  IF it.updating THEN it
  ELSE LET temp == SliderToApi(it.tempSlider)
           it1 == [it EXCEPT !.tempLabel = ApiToKelvin(temp)]
           it2 == IF it1.tempTimeout # 0
                    THEN SourceRemove(it1, it1.tempTimeout)
                    ELSE it1
       IN  [TimeoutAdd(it2, "temperature", temp)
              EXCEPT !.tempTimeout = it2.nextId]

\* a slider's value is set: notify::value runs the handler still connected
SetSliderValue(it, slider, position) ==
  LET it1 == IF slider = "brightness"
               THEN [it EXCEPT !.brightnessSlider = position]
               ELSE [it EXCEPT !.tempSlider = position]
  IN  IF slider \notin it1.signals THEN it1
      ELSE IF slider = "brightness" THEN OnBrightnessChanged(it1)
      ELSE OnTemperatureChanged(it1)

UpdateState(it) ==
  LET it1 == [it EXCEPT !.updating = TRUE]
      it2 == SetSliderValue(it1, "brightness", BrightnessToSlider(it1.light.brightness))
      it3 == [it2 EXCEPT !.brightnessLabel = it2.light.brightness]
      it4 == SetSliderValue(it3, "temperature", ApiToSlider(it3.light.temperature))
      it5 == [it4 EXCEPT !.tempLabel = ApiToKelvin(it4.light.temperature)]
  IN  [it5 EXCEPT !.updating = FALSE]

\* the callback of a debounce timeout; it returns SOURCE_REMOVE
OnDebounceTimeout(it, source) ==
  IF it.destroyed THEN it
  ELSE IF source.slider = "brightness"
    THEN [it EXCEPT !.trace.calls = Append(@, [slider |-> "brightness",
                                               value |-> source.value]),
                    !.brightnessTimeout = 0]
    ELSE [it EXCEPT !.trace.calls = Append(@, [slider |-> "temperature",
                                               value |-> source.value]),
                    !.tempTimeout = 0]

ItemDestroy(it) ==
  LET it1 == [it EXCEPT !.destroyed = TRUE, !.signals = {}]
      it2 == IF it1.brightnessTimeout # 0
               THEN [SourceRemove(it1, it1.brightnessTimeout)
                       EXCEPT !.brightnessTimeout = 0]
               ELSE it1
  IN  IF it2.tempTimeout # 0
        THEN [SourceRemove(it2, it2.tempTimeout) EXCEPT !.tempTimeout = 0]
        ELSE it2


(* ----------------------------- ElgatoLight ----------------------------- *)

\* the default of _sendWithRetry's maxRetries parameter
DefaultMaxRetries == 3

\* what one send_and_read_async does: a response with its status, or a
\* network error thrown
Statuses == {200, 404, 500, 503}
NetworkError == [error |-> TRUE, status |-> 0]
Outcomes == {[error |-> FALSE, status |-> status] : status \in Statuses} \cup {NetworkError}

\* the bodies a GET of /elgato/lights is answered with
LightsBodies ==
  {[kind |-> "lights", brightness |-> 80, temperature |-> 300],
   [kind |-> "no lights"],
   [kind |-> "not json"]}

NoBytes == [kind |-> "none"]

\* numbers given to setState, as fractions <<numerator, denominator>>
Levels ==
  {[brightness |-> <<5, 2>>, temperature |-> <<687, 2>>],
   [brightness |-> <<250, 1>>, temperature |-> <<100, 1>>]}

Max(a, b) == IF a >= b THEN a ELSE b
Min(a, b) == IF a <= b THEN a ELSE b

\* the light after the constructor, with no operation started
InitLight ==
  [on |-> FALSE, brightness |-> 50, temperature |-> 200, ops |-> <<>>]

\* one call of _sendWithRetry: attempt is the loop variable, pc the await it
\* stands at, sends the messages sent, delays the _delay(ms) calls made, and
\* last what the latest send did
NewRequest(method, body, maxRetries) ==
  [method |-> method, body |-> body, maxRetries |-> maxRetries,
   attempt |-> 0, pc |-> "loop", sends |-> 0, delays |-> <<>>,
   last |-> [error |-> FALSE, status |-> 0],
   result |-> [success |-> FALSE, status |-> 0, error |-> "none", bytes |-> NoBytes]]

\* the head of the for loop: the next message is sent, or the loop is left
\* and the failure after it is returned
LoopHead(r) ==
  IF r.attempt < r.maxRetries
    THEN [r EXCEPT !.pc = "sending", !.sends = @ + 1]
    ELSE [r EXCEPT !.pc = "done",
                   !.result = [success |-> FALSE, status |-> 0,
                               error |-> IF r.last.error THEN "network error"
                                         ELSE "Max retries exceeded",
                               bytes |-> NoBytes]]

SendWithRetry(method, body, maxRetries) ==
  LoopHead(NewRequest(method, body, maxRetries))

\* (variant: every status but 200 is retried)
OnSendSettledRetriesAll(r, outcome, bytes) ==
  IF outcome.error
    THEN IF r.attempt < r.maxRetries - 1
           THEN [r EXCEPT !.last = NetworkError,
                          !.pc = "delaying",
                          !.delays = Append(@, 1000 * (r.attempt + 1))]
           ELSE LoopHead([r EXCEPT !.last = NetworkError,
                                   !.attempt = @ + 1])
  ELSE IF outcome.status = 200
    THEN [r EXCEPT !.last = outcome,
                   !.pc = "done",
                   !.result = [success |-> TRUE, status |-> outcome.status,
                               error |-> "none", bytes |-> bytes]]
  ELSE IF r.attempt < r.maxRetries - 1
    THEN [r EXCEPT !.last = outcome,
                   !.pc = "delaying",
                   !.delays = Append(@, 1000 * (r.attempt + 1))]
  ELSE [r EXCEPT !.last = outcome,
                 !.pc = "done",
                 !.result = [success |-> FALSE, status |-> outcome.status,
                             error |-> "HTTP", bytes |-> NoBytes]]

\* the body of the loop after send_and_read_async settled
OnSendSettled(r, outcome, bytes) ==
  IF outcome.error
    THEN IF r.attempt < r.maxRetries - 1
           THEN [r EXCEPT !.last = NetworkError,
                          !.pc = "delaying",
                          !.delays = Append(@, 1000 * (r.attempt + 1))]
           ELSE LoopHead([r EXCEPT !.last = NetworkError,
                                   !.attempt = @ + 1])
  ELSE IF outcome.status = 200
    THEN [r EXCEPT !.last = outcome,
                   !.pc = "done",
                   !.result = [success |-> TRUE, status |-> outcome.status,
                               error |-> "none", bytes |-> bytes]]
  ELSE IF outcome.status >= 500 /\ r.attempt < r.maxRetries - 1
    THEN [r EXCEPT !.last = outcome,
                   !.pc = "delaying",
                   !.delays = Append(@, 1000 * (r.attempt + 1))]
  ELSE [r EXCEPT !.last = outcome,
                 !.pc = "done",
                 !.result = [success |-> FALSE, status |-> outcome.status,
                             error |-> "HTTP", bytes |-> NoBytes]]

\* _delay(ms) resolved: continue
OnDelayElapsed(r) == LoopHead([r EXCEPT !.attempt = @ + 1])

\* the JSON body of the PUT
Payload(on, brightness, temperature) ==
  [on |-> IF on THEN 1 ELSE 0, brightness |-> brightness, temperature |-> temperature]

NoData == [kind |-> "none"]

\* an operation of the light: the method running, its arguments and locals,
\* the _sendWithRetry call it awaits, and what it returned
NewOp(kind, on, brightness, temperature, req) ==
  [kind |-> kind, on |-> on, brightness |-> brightness, temperature |-> temperature,
   pc |-> "await", step |-> IF kind = "setOn" THEN "GET" ELSE "PUT",
   req |-> req, data |-> NoData, returned |-> "pending",
   args |-> [brightness |-> <<0, 1>>, temperature |-> <<0, 1>>]]

\* a call of _sendWithRetry(method, url, null, maxRetries)
SendOnly(l, method, maxRetries) ==
  [l EXCEPT !.ops = Append(@, NewOp("send", FALSE, 0, 0,
                                    SendWithRetry(method, "none", maxRetries)))]

\* setState up to its await
SetState(l, on, brightness, temperature) ==
  LET b == Max(3, Min(100, Round(brightness[1], brightness[2])))
      t == Max(143, Min(344, Round(temperature[1], temperature[2])))
  IN  [l EXCEPT !.ops = Append(@,
        [NewOp("setState", on, b, t,
               SendWithRetry("PUT", Payload(on, b, t), DefaultMaxRetries))
           EXCEPT !.args = [brightness |-> brightness, temperature |-> temperature]])]

\* setOn up to its first await
SetOn(l, on) ==
  [l EXCEPT !.ops = Append(@, NewOp("setOn", on, 0, 0,
                           SendWithRetry("GET", "none", DefaultMaxRetries)))]

\* the operation returns; its locals are gone
Return(l, i, value) ==
  [l EXCEPT !.ops[i] =
     [NewOp(l.ops[i].kind, FALSE, 0, 0, NewRequest("none", "none", 0))
        EXCEPT !.pc = "done", !.returned = value]]

\* (variant: the cache is written before the result is tested)
AfterSetStatePutWritesFirst(l, i) ==
  LET op == l.ops[i]
      l1 == [l EXCEPT !.on = op.on,
                      !.brightness = op.brightness,
                      !.temperature = op.temperature]
  IN  IF ~op.req.result.success THEN Return(l1, i, FALSE)
      ELSE Return(l1, i, TRUE)

\* setState after its await
AfterSetStatePut(l, i) ==
  LET op == l.ops[i]
  IN  IF ~op.req.result.success THEN Return(l, i, FALSE)
      ELSE Return([l EXCEPT !.on = op.on,
                            !.brightness = op.brightness,
                            !.temperature = op.temperature], i, TRUE)

\* (variant: the PUT carries the cached brightness and temperature)
AfterSetOnGetUsesCache(l, i) ==
  LET op == l.ops[i]
      bytes == op.req.result.bytes
  IN  IF ~op.req.result.success THEN Return(l, i, FALSE)
      ELSE IF bytes.kind # "lights" THEN Return(l, i, FALSE)
      ELSE [l EXCEPT !.ops[i].data = bytes,
                     !.ops[i].step = "PUT",
                     !.ops[i].req =
                        SendWithRetry("PUT",
                                      Payload(op.on, l.brightness, l.temperature),
                                      DefaultMaxRetries)]

\* setOn after the GET: the body is decoded and parsed, and the PUT is sent
AfterSetOnGet(l, i) ==
  LET op == l.ops[i]
      bytes == op.req.result.bytes
  IN  IF ~op.req.result.success THEN Return(l, i, FALSE)
      ELSE IF bytes.kind # "lights" THEN Return(l, i, FALSE)
      ELSE [l EXCEPT !.ops[i].data = bytes,
                     !.ops[i].step = "PUT",
                     !.ops[i].req =
                        SendWithRetry("PUT",
                                      Payload(op.on, bytes.brightness, bytes.temperature),
                                      DefaultMaxRetries)]

\* setOn after the PUT
AfterSetOnPut(l, i) ==
  LET op == l.ops[i]
  IN  IF ~op.req.result.success THEN Return(l, i, FALSE)
      ELSE Return([l EXCEPT !.on = op.on,
                            !.brightness = op.data.brightness,
                            !.temperature = op.data.temperature], i, TRUE)

\* the continuation of the operation whose _sendWithRetry call returned
Continue(l, i) ==
  LET op == l.ops[i]
  IN  IF op.kind = "send" THEN Return(l, i, op.req.result.success)
      ELSE IF op.kind = "setState" THEN AfterSetStatePut(l, i)
      ELSE IF op.step = "GET" THEN AfterSetOnGet(l, i)
      ELSE AfterSetOnPut(l, i)


(* --------------------------- parseAvahiOutput -------------------------- *)

DefaultPort == 9123

\* strings are sequences of characters where the code reads them by character
Digits == {"0", "1", "2", "3", "4", "5", "6", "7", "8", "9"}

DigitValue(c) ==
  CASE c = "0" -> 0 [] c = "1" -> 1 [] c = "2" -> 2 [] c = "3" -> 3 [] c = "4" -> 4
    [] c = "5" -> 5 [] c = "6" -> 6 [] c = "7" -> 7 [] c = "8" -> 8 [] c = "9" -> 9

\* the number NaN
NaN == [nan |-> TRUE, value |-> 0]
Number(n) == [nan |-> FALSE, value |-> n]

\* the digits that start the string
RECURSIVE LeadingDigits(_)
LeadingDigits(str) ==
  IF str = <<>> \/ Head(str) \notin Digits THEN <<>>
  ELSE <<Head(str)>> \o LeadingDigits(Tail(str))

RECURSIVE DecimalValue(_)
DecimalValue(digits) ==
  IF digits = <<>> THEN 0
  ELSE 10 * DecimalValue(SubSeq(digits, 1, Len(digits) - 1))
         + DigitValue(digits[Len(digits)])

\* parseInt(str, 10) of a string without sign or leading blanks
ParseInt(str) ==
  IF LeadingDigits(str) = <<>> THEN NaN
  ELSE Number(DecimalValue(LeadingDigits(str)))

\* `${port}`
NumberToString(n) == IF n.nan THEN "NaN" ELSE ToString(n.value)

\* String.fromCharCode, for the codes the names contain
FromCharCode(code) ==
  CASE code = 32 -> " " [] code = 40 -> "(" [] code = 41 -> ")"

\* str.replace(/\\(\d{3})/g, ...): every \DDD becomes the character DDD
RECURSIVE DecodeAvahiString(_)
DecodeAvahiString(str) ==
  IF str = <<>> THEN <<>>
  ELSE IF /\ Head(str) = "\\"
          /\ Len(str) >= 4
          /\ \A k \in 2..4 : str[k] \in Digits
    THEN <<FromCharCode(DecimalValue(SubSeq(str, 2, 4)))>>
           \o DecodeAvahiString(SubSeq(str, 5, Len(str)))
    ELSE <<Head(str)>> \o DecodeAvahiString(Tail(str))

\* a line of the output split at ";"; name and port are kept by character
Line(mark, proto, name, host, port) ==
  <<mark, "eth0", proto, name, "_elg._tcp", "local", "host.local", host, port>>

KeyLight == <<"K", "e", "y", "\\", "0", "3", "2", "A">>

AvahiLines ==
  {Line("=", "IPv4", KeyLight, host, port) :
     host \in {"192.168.1.100", "192.168.1.101"},
     port \in {<<"9", "1", "2", "3">>, <<"0">>, <<"i", "n", "v">>, <<"9", "1", "2", "3", "x">>}}
  \cup {Line("+", "IPv4", KeyLight, "192.168.1.100", <<"9", "1", "2", "3">>),
        Line("=", "IPv6", KeyLight, "fe80::1", <<"9", "1", "2", "3">>),
        <<"=", "eth0", "IPv4", KeyLight, "_elg._tcp", "local", "host.local">>}

\* the template `${host}:${port}`
Key(host, port) == <<host, ":", NumberToString(port)>>

\* the body of the loop over the lines
ParseLine(fields, acc) ==
  IF fields[1] # "=" THEN acc
  ELSE IF Len(fields) < 9 THEN acc
  ELSE IF fields[3] # "IPv4" THEN acc
  ELSE LET host == fields[8]
           port == ParseInt(fields[9])
           key == Key(host, port)
       IN  IF key \in acc.seen THEN acc
           ELSE [seen |-> acc.seen \cup {key},
                 lights |-> Append(acc.lights,
                                   [name |-> DecodeAvahiString(fields[4]),
                                    host |-> host,
                                    port |-> IF port.nan \/ port.value = 0
                                               THEN DefaultPort ELSE port.value])]

RECURSIVE ParseLines(_, _)
ParseLines(lines, acc) ==
  IF lines = <<>> THEN acc
  ELSE ParseLines(Tail(lines), ParseLine(Head(lines), acc))

ParseAvahiOutput(lines) ==
  IF lines = <<>> THEN <<>>
  ELSE ParseLines(lines, [seen |-> {}, lights |-> <<>>]).lights

(* --------------------- JavaScript Map (lights) ------------------------- *)

\* a Map is its entries in insertion order
MapHas(m, key) == \E i \in 1..Len(m) : m[i].key = key

MapSet(m, key, value) ==
  IF MapHas(m, key)
    THEN [i \in 1..Len(m) |-> IF m[i].key = key THEN [key |-> key, value |-> value] ELSE m[i]]
    ELSE Append(m, [key |-> key, value |-> value])

\* Array.from(m.values())
MapValues(m) == [i \in 1..Len(m) |-> m[i].value]

\* (variant: the key leaves out the address)
LightKeyPortOnly(address, port) == ToString(port)

\* `${address}:${port}`
LightKey(address, port) == address \o ":" \o ToString(port)

(* ------------------------- functions of the closure ------------------- *)

\* bus.call(AVAHI_BUS_NAME, path, iface, "Free", ...): the reply is ignored
CallFree(w, path) == [w EXCEPT !.platform.freeCalls[path] = @ + 1]

FreeResolver(w, resolverPath) ==
  IF resolverPath \in w.sess.freedResolvers
    THEN w
    ELSE CallFree([w EXCEPT !.sess.freedResolvers = @ \cup {resolverPath}], resolverPath)

\* for (const resolverPath of resolverPaths) freeResolver(resolverPath)
RECURSIVE FreeResolvers(_, _)
FreeResolvers(w, paths) ==
  IF paths = {}
    THEN w
    ELSE LET p == CHOOSE q \in paths : TRUE
         IN FreeResolvers(FreeResolver(w, p), paths \ {p})

\* (variant: timeoutId is cleared without platform.removeTimeout)
CleanupTimeoutKeepsTimer(w) == [w EXCEPT !.sess.timeoutId = NoId]

\* if (timeoutId) { platform.removeTimeout(timeoutId); timeoutId = null; }
CleanupTimeout(w) ==
  IF w.sess.timeoutId # NoId
    THEN [w EXCEPT !.platform.timer = "removed",
                   !.platform.removeTimeoutCalls = @ + 1,
                   !.sess.timeoutId = NoId]
    ELSE w

\* if (bus) { if (id) { bus.signal_unsubscribe(id); id = null; } ... five times }
CleanupSignals(w) ==
  IF w.sess.bus # null
    THEN [w EXCEPT !.platform.unsubscribed =
                      @ \cup ({w.sess.browserSignalId, w.sess.allForNowSignalId,
                               w.sess.failureSignalId, w.sess.resolverFoundSignalId,
                               w.sess.resolverFailureSignalId} \ {NoId}),
                   !.sess.browserSignalId = NoId,
                   !.sess.allForNowSignalId = NoId,
                   !.sess.failureSignalId = NoId,
                   !.sess.resolverFoundSignalId = NoId,
                   !.sess.resolverFailureSignalId = NoId]
    ELSE w

\* if (bus) { for (const resolverPath of resolverPaths) freeResolver(resolverPath); }
CleanupResolvers(w) ==
  IF w.sess.bus # null THEN FreeResolvers(w, w.sess.resolverPaths) ELSE w

\* if (bus && browserPath) { bus.call(..., browserPath, ..., "Free", ...); browserPath = null; }
CleanupBrowser(w) ==
  IF w.sess.bus # null /\ w.sess.browserPath # null
    THEN [CallFree(w, w.sess.browserPath) EXCEPT !.sess.browserPath = null]
    ELSE w

Cleanup(w) ==
  AndThen(AndThen(AndThen(CleanupTimeout([w EXCEPT !.trace.cleanups = @ + 1]),
                 CleanupSignals), CleanupResolvers), CleanupBrowser)

\* what the session and the platform are when resolve or reject first runs
AtSettle(w) ==
  IF w.promise.state = "pending"
    THEN Snapshot(w.sess, w.platform, w.trace.cleanups)
    ELSE w.trace.atSettle

\* resolve(value) / reject(reason): only the first invocation settles
Resolve(w, value) ==
  [w EXCEPT !.promise.resolveCalls = @ + 1,
            !.promise.state = IF @ = "pending" THEN "fulfilled" ELSE @,
            !.promise.value = IF w.promise.state = "pending" THEN value ELSE @,
            !.trace.atSettle = AtSettle(w)]

Reject(w, reason) ==
  [w EXCEPT !.promise.rejectCalls = @ + 1,
            !.promise.state = IF @ = "pending" THEN "rejected" ELSE @,
            !.promise.reason = IF w.promise.state = "pending" THEN reason ELSE @,
            !.trace.atSettle = AtSettle(w)]

\* new Error(`${what}: ${detail}`), kept as the parts of the template
Error(what, detail) == <<what, ": ", detail>>

\* if (error) reject(error) else resolve(Array.from(lights.values()))
Settle(w, error) ==
  IF error # NoError
    THEN Reject(w, error)
    ELSE Resolve(w, MapValues(w.sess.lights))

\* (variant: no `if (completed) return`)
CompleteUnguarded(w, error) ==
  AndThen(Cleanup([w EXCEPT !.sess.completed = TRUE, !.trace.completions = @ + 1]),
       LAMBDA w1 : Settle(w1, error))

Complete(w, error) ==
  IF w.sess.completed
    THEN w
    ELSE AndThen(Cleanup([w EXCEPT !.sess.completed = TRUE, !.trace.completions = @ + 1]),
              LAMBDA w1 : Settle(w1, error))

\* (variant: completes on allForNowReceived alone)
CheckCompletionIgnoresPending(w) ==
  IF w.sess.allForNowReceived
    THEN Complete(w, NoError)
    ELSE w

CheckCompletion(w) ==
  IF w.sess.allForNowReceived /\ w.sess.pendingResolvers = 0
    THEN Complete(w, NoError)
    ELSE w

\* pendingResolvers++ and the ServiceResolverNew call; the daemon numbers the
\* resolvers it is asked for
\* (variant: the call is made without pendingResolvers++)
HandleItemNewNoCount(w, params) ==
  [w EXCEPT !.platform.resolverCalls =
               @ \cup {[path |-> ResolverPath(w.platform.nextResolver), args |-> params]},
            !.platform.nextResolver = @ + 1]

HandleItemNew(w, params) ==
  [w EXCEPT !.sess.pendingResolvers = @ + 1,
            !.platform.resolverCalls =
               @ \cup {[path |-> ResolverPath(w.platform.nextResolver), args |-> params]},
            !.platform.nextResolver = @ + 1]

\* (variant: no checkCompletion() after setting the flag)
HandleAllForNowNoCheck(w) ==
  [w EXCEPT !.sess.allForNowReceived = TRUE,
            !.trace.pendingAtAllForNow = IF @ = -1 THEN w.sess.pendingResolvers ELSE @]

HandleAllForNow(w) ==
  CheckCompletion([w EXCEPT !.sess.allForNowReceived = TRUE,
                            !.trace.pendingAtAllForNow =
                               IF @ = -1 THEN w.sess.pendingResolvers ELSE @])

\* (variant: the failure is held back while resolvers are pending)
HandleBrowserFailureWaits(w, errorMsg) ==
  IF w.sess.pendingResolvers > 0
    THEN [w EXCEPT !.trace.browserFailures = Append(@, errorMsg)]
    ELSE Complete([w EXCEPT !.trace.browserFailures = Append(@, errorMsg)],
                  Error("Service browser failed", errorMsg))

HandleBrowserFailure(w, errorMsg) ==
  Complete([w EXCEPT !.trace.browserFailures = Append(@, errorMsg)],
           Error("Service browser failed", errorMsg))

\* (variant: no `if (!lights.has(key))` around lights.set)
HandleResolverFoundOverwrites(w, resolverPath, params) ==
  LET w0 == [w EXCEPT !.trace.terminals[resolverPath] = @ + 1,
                      !.trace.ignored =
                         IF resolverPath \in w.sess.completedResolvers
                           THEN @ \cup {<<resolverPath, "Found">>} ELSE @]
  IN IF resolverPath \in w.sess.completedResolvers
       THEN w0
       ELSE LET key == LightKey(params.address, params.port)
                light == [name |-> params.name, host |-> params.address, port |-> params.port]
                w1 == [w0 EXCEPT !.sess.completedResolvers = @ \cup {resolverPath},
                                 !.trace.found = @ \cup {<<params.address, params.port>>}]
                w2 == [w1 EXCEPT !.sess.lights = MapSet(@, key, light),
                                 !.trace.lightSets[resolverPath] = @ + 1,
                                 !.trace.skipped = IF MapHas(w1.sess.lights, key)
                                                     THEN @ \cup {light} ELSE @]
                w3 == FreeResolver(w2, resolverPath)
            IN CheckCompletion([w3 EXCEPT !.sess.pendingResolvers = @ - 1,
                                          !.trace.decrements[resolverPath] = @ + 1])

\* (variant: no completedResolvers guard)
HandleResolverFoundUnguarded(w, resolverPath, params) ==
  LET w0 == [w EXCEPT !.trace.terminals[resolverPath] = @ + 1,
                      !.trace.ignored =
                         IF resolverPath \in w.sess.completedResolvers
                           THEN @ \cup {<<resolverPath, "Found">>} ELSE @]
      key == LightKey(params.address, params.port)
      light == [name |-> params.name, host |-> params.address, port |-> params.port]
      w1 == [w0 EXCEPT !.sess.completedResolvers = @ \cup {resolverPath},
                       !.trace.found = @ \cup {<<params.address, params.port>>}]
      w2 == IF ~MapHas(w1.sess.lights, key)
              THEN [w1 EXCEPT !.sess.lights = MapSet(@, key, light),
                              !.trace.lightSets[resolverPath] = @ + 1]
              ELSE [w1 EXCEPT !.trace.skipped = @ \cup {light}]
      w3 == FreeResolver(w2, resolverPath)
  IN CheckCompletion([w3 EXCEPT !.sess.pendingResolvers = @ - 1,
                                !.trace.decrements[resolverPath] = @ + 1])

\* (variant: no checkCompletion() after the decrement)
HandleResolverFoundNoCheck(w, resolverPath, params) ==
  LET w0 == [w EXCEPT !.trace.terminals[resolverPath] = @ + 1,
                      !.trace.ignored =
                         IF resolverPath \in w.sess.completedResolvers
                           THEN @ \cup {<<resolverPath, "Found">>} ELSE @]
  IN IF resolverPath \in w.sess.completedResolvers
       THEN w0
       ELSE LET key == LightKey(params.address, params.port)
                light == [name |-> params.name, host |-> params.address, port |-> params.port]
                w1 == [w0 EXCEPT !.sess.completedResolvers = @ \cup {resolverPath},
                                 !.trace.found = @ \cup {<<params.address, params.port>>}]
                w2 == IF ~MapHas(w1.sess.lights, key)
                        THEN [w1 EXCEPT !.sess.lights = MapSet(@, key, light),
                                        !.trace.lightSets[resolverPath] = @ + 1]
                        ELSE [w1 EXCEPT !.trace.skipped = @ \cup {light}]
                w3 == FreeResolver(w2, resolverPath)
            IN [w3 EXCEPT !.sess.pendingResolvers = @ - 1,
                          !.trace.decrements[resolverPath] = @ + 1]

HandleResolverFound(w, resolverPath, params) ==
  LET w0 == [w EXCEPT !.trace.terminals[resolverPath] = @ + 1,
                      !.trace.ignored =
                         IF resolverPath \in w.sess.completedResolvers
                           THEN @ \cup {<<resolverPath, "Found">>} ELSE @]
  IN IF resolverPath \in w.sess.completedResolvers
       THEN w0
       ELSE LET key == LightKey(params.address, params.port)
                light == [name |-> params.name, host |-> params.address, port |-> params.port]
                w1 == [w0 EXCEPT !.sess.completedResolvers = @ \cup {resolverPath},
                                 !.trace.found = @ \cup {<<params.address, params.port>>}]
                w2 == IF ~MapHas(w1.sess.lights, key)
                        THEN [w1 EXCEPT !.sess.lights = MapSet(@, key, light),
                                        !.trace.lightSets[resolverPath] = @ + 1]
                        ELSE [w1 EXCEPT !.trace.skipped = @ \cup {light}]
                w3 == FreeResolver(w2, resolverPath)
            IN CheckCompletion([w3 EXCEPT !.sess.pendingResolvers = @ - 1,
                                          !.trace.decrements[resolverPath] = @ + 1])

\* (variant: no completedResolvers guard)
HandleResolverFailureUnguarded(w, resolverPath) ==
  LET w0 == [w EXCEPT !.trace.terminals[resolverPath] = @ + 1,
                      !.trace.ignored =
                         IF resolverPath \in w.sess.completedResolvers
                           THEN @ \cup {<<resolverPath, "Failure">>} ELSE @]
      w1 == [w0 EXCEPT !.sess.completedResolvers = @ \cup {resolverPath},
                       !.trace.failed = @ \cup {resolverPath}]
      w2 == FreeResolver(w1, resolverPath)
  IN CheckCompletion([w2 EXCEPT !.sess.pendingResolvers = @ - 1,
                                !.trace.decrements[resolverPath] = @ + 1])

\* (variant: no checkCompletion() after the decrement)
HandleResolverFailureNoCheck(w, resolverPath) ==
  LET w0 == [w EXCEPT !.trace.terminals[resolverPath] = @ + 1,
                      !.trace.ignored =
                         IF resolverPath \in w.sess.completedResolvers
                           THEN @ \cup {<<resolverPath, "Failure">>} ELSE @]
  IN IF resolverPath \in w.sess.completedResolvers
       THEN w0
       ELSE LET w1 == [w0 EXCEPT !.sess.completedResolvers = @ \cup {resolverPath},
                                 !.trace.failed = @ \cup {resolverPath}]
                w2 == FreeResolver(w1, resolverPath)
            IN [w2 EXCEPT !.sess.pendingResolvers = @ - 1,
                          !.trace.decrements[resolverPath] = @ + 1]

HandleResolverFailure(w, resolverPath) ==
  LET w0 == [w EXCEPT !.trace.terminals[resolverPath] = @ + 1,
                      !.trace.ignored =
                         IF resolverPath \in w.sess.completedResolvers
                           THEN @ \cup {<<resolverPath, "Failure">>} ELSE @]
  IN IF resolverPath \in w.sess.completedResolvers
       THEN w0
       ELSE LET w1 == [w0 EXCEPT !.sess.completedResolvers = @ \cup {resolverPath},
                                 !.trace.failed = @ \cup {resolverPath}]
                w2 == FreeResolver(w1, resolverPath)
            IN CheckCompletion([w2 EXCEPT !.sess.pendingResolvers = @ - 1,
                                          !.trace.decrements[resolverPath] = @ + 1])

\* the loop of processBufferedBrowserSignals over entries i..Len
RECURSIVE ReplayBrowserSignals(_, _, _)
ReplayBrowserSignals(w, buffer, i) ==
  IF i > Len(buffer)
    THEN w
    ELSE LET e == buffer[i]
             w1 == IF e.path # w.sess.browserPath THEN w
                   ELSE IF e.signalName = "ItemNew" THEN HandleItemNew(w, e.params)
                   ELSE IF e.signalName = "AllForNow" THEN HandleAllForNow(w)
                   ELSE IF e.signalName = "Failure" THEN HandleBrowserFailure(w, e.params[1])
                   ELSE w
         IN ReplayBrowserSignals(w1, buffer, i + 1)

\* (variant: the buffer is cleared without replaying it)
ProcessBufferedBrowserSignalsDrops(w) ==
  [w EXCEPT !.sess.bufferedBrowserSignals = <<>>]

ProcessBufferedBrowserSignals(w) ==
  [ReplayBrowserSignals(w, w.sess.bufferedBrowserSignals, 1)
     EXCEPT !.sess.bufferedBrowserSignals = <<>>]

\* the loop of processBufferedResolverSignals over entries i..Len
RECURSIVE ReplayResolverSignals(_, _, _, _)
ReplayResolverSignals(w, buffer, resolverPath, i) ==
  IF i > Len(buffer)
    THEN w
    ELSE LET e == buffer[i]
             w1 == IF e.path = resolverPath
                     THEN IF e.signalName = "Found" THEN HandleResolverFound(w, e.path, e.params)
                          ELSE IF e.signalName = "Failure" THEN HandleResolverFailure(w, e.path)
                          ELSE w
                     ELSE w
         IN ReplayResolverSignals(w1, buffer, resolverPath, i + 1)

\* (variant: the whole buffer is cleared)
ProcessBufferedResolverSignalsClearsAll(w, resolverPath) ==
  LET buffer == w.sess.bufferedResolverSignals
  IN [ReplayResolverSignals(w, buffer, resolverPath, 1)
        EXCEPT !.sess.bufferedResolverSignals = <<>>,
               !.trace.replayed = IF \E i \in 1..Len(buffer) : buffer[i].path = resolverPath
                                    THEN @ \cup {resolverPath} ELSE @]

ProcessBufferedResolverSignals(w, resolverPath) ==
  LET buffer == w.sess.bufferedResolverSignals
      remaining == SelectSeq(buffer, LAMBDA e : e.path # resolverPath)
  IN [ReplayResolverSignals(w, buffer, resolverPath, 1)
        EXCEPT !.sess.bufferedResolverSignals = remaining,
               !.trace.replayed = IF \E i \in 1..Len(buffer) : buffer[i].path = resolverPath
                                    THEN @ \cup {resolverPath} ELSE @]

(* ----------------------- subscription callbacks ----------------------- *)

ItemNewId == 1
AllForNowId == 2
FailureId == 3
ResolverFoundId == 4
ResolverFailureId == 5
SignalIds == {ItemNewId, AllForNowId, FailureId, ResolverFoundId, ResolverFailureId}
TimeoutId == 1

BufferBrowser(w, signalName, path, params) ==
  [w EXCEPT !.sess.bufferedBrowserSignals =
     Append(@, [signalName |-> signalName, path |-> path, params |-> params])]

BufferResolver(w, signalName, path, params) ==
  [w EXCEPT !.sess.bufferedResolverSignals =
     Append(@, [signalName |-> signalName, path |-> path, params |-> params])]

\* (variant: no comparison of the path with browserPath)
OnItemNewAnyPath(w, path, params) ==
  IF w.sess.completed THEN w
  ELSE IF w.sess.browserPath = null THEN BufferBrowser(w, "ItemNew", path, params)
  ELSE HandleItemNew(w, params)

OnItemNew(w, path, params) ==
  IF w.sess.completed THEN w
  ELSE IF w.sess.browserPath = null THEN BufferBrowser(w, "ItemNew", path, params)
  ELSE IF path = w.sess.browserPath THEN HandleItemNew(w, params)
  ELSE w

OnAllForNow(w, path) ==
  IF w.sess.completed THEN w
  ELSE IF w.sess.browserPath = null THEN BufferBrowser(w, "AllForNow", path, <<>>)
  ELSE IF path = w.sess.browserPath THEN HandleAllForNow(w)
  ELSE w

OnBrowserFailure(w, path, params) ==
  IF w.sess.completed THEN w
  ELSE IF w.sess.browserPath = null THEN BufferBrowser(w, "Failure", path, params)
  ELSE IF path = w.sess.browserPath THEN HandleBrowserFailure(w, params[1])
  ELSE w

\* (variant: no comparison of the path with resolverPaths)
OnResolverFoundAnyPath(w, path, params) ==
  IF w.sess.completed THEN w
  ELSE HandleResolverFound(w, path, params)

OnResolverFound(w, path, params) ==
  IF w.sess.completed THEN w
  ELSE IF path \in w.sess.resolverPaths THEN HandleResolverFound(w, path, params)
  ELSE BufferResolver(w, "Found", path, params)

OnResolverFailure(w, path) ==
  IF w.sess.completed THEN w
  ELSE IF path \in w.sess.resolverPaths THEN HandleResolverFailure(w, path)
  ELSE BufferResolver(w, "Failure", path, <<>>)

\* (variant: the callback forgets complete())
OnTimeoutForgetsComplete(w) == [w EXCEPT !.sess.timeoutId = NoId]

\* (variant: the timeout is reported as an error)
OnTimeoutRejects(w) ==
  Complete([w EXCEPT !.sess.timeoutId = NoId], Error("Discovery timed out", "error"))

\* timeoutId = null; complete(); return false
OnTimeout(w) == Complete([w EXCEPT !.sess.timeoutId = NoId], NoError)

\* (variant: a reply that finds the session completed frees the browser itself)
OnBrowserReplyFreesLate(w, outcome) ==
  IF outcome = "ok"
    THEN LET w1 == ProcessBufferedBrowserSignals([w EXCEPT !.sess.browserPath = OwnBrowser])
         IN IF w1.sess.completed THEN CallFree(w1, OwnBrowser) ELSE w1
    ELSE Complete(w, Error("Failed to create service browser", "error"))

\* (variant: the error reply rejects without complete())
OnBrowserReplyRejectsDirectly(w, outcome) ==
  IF outcome = "ok"
    THEN ProcessBufferedBrowserSignals([w EXCEPT !.sess.browserPath = OwnBrowser])
    ELSE Reject([w EXCEPT !.sess.completed = TRUE],
                Error("Failed to create service browser", "error"))

\* the reply callback of ServiceBrowserNew
OnBrowserReply(w, outcome) ==
  IF outcome = "ok"
    THEN ProcessBufferedBrowserSignals([w EXCEPT !.sess.browserPath = OwnBrowser])
    ELSE Complete(w, Error("Failed to create service browser", "error"))

\* (variant: a failed ServiceResolverNew ends the session with an error)
OnResolverReplyFatal(w, resolverPath, ok) ==
  IF ok
    THEN ProcessBufferedResolverSignals(
           [w EXCEPT !.sess.resolverPaths = @ \cup {resolverPath}], resolverPath)
    ELSE Complete([w EXCEPT !.sess.pendingResolvers = @ - 1,
                            !.trace.failed = @ \cup {resolverPath}],
                  Error("Failed to create resolver", "error"))

\* the reply callback of ServiceResolverNew
OnResolverReply(w, resolverPath, ok) ==
  IF ok
    THEN ProcessBufferedResolverSignals(
           [w EXCEPT !.sess.resolverPaths = @ \cup {resolverPath}], resolverPath)
    ELSE CheckCompletion([w EXCEPT !.sess.pendingResolvers = @ - 1,
                                   !.trace.failed = @ \cup {resolverPath}])

\* bus.call(..., "ServiceBrowserNew", ...) is entered: the subscriptions that
\* exist at that moment
ServiceBrowserNew(w) ==
  [w EXCEPT !.trace.browserNewCalls = @ + 1,
            !.trace.subscribedAtBrowserNew = w.platform.subscribed]

\* (variant: ServiceBrowserNew is called before the subscriptions are made)
ExecutorCallsBrowserFirst(w, connect, browser) ==
  IF connect # "ok"
    THEN Reject(w, Error("Failed to connect to system D-Bus", "error"))
    ELSE LET w1 == ServiceBrowserNew(
                     [w EXCEPT !.sess.bus = "system",
                               !.sess.timeoutId = TimeoutId,
                               !.platform.timer = "armed",
                               !.platform.timerMs = DISCOVERY_TIMEOUT_MS])
             w2 == [w1 EXCEPT !.sess.browserSignalId = ItemNewId,
                              !.sess.allForNowSignalId = AllForNowId,
                              !.sess.failureSignalId = FailureId,
                              !.sess.resolverFoundSignalId = ResolverFoundId,
                              !.sess.resolverFailureSignalId = ResolverFailureId,
                              !.platform.subscribed = SignalIds]
         IN IF browser = "throws"
              THEN Complete(w2, Error("Failed to initiate service browser", "error"))
              ELSE [w2 EXCEPT !.platform.browserCall = "inflight",
                              !.platform.browserOutcome = browser]

\* (variant: the timeout is armed before getSystemBus())
ExecutorArmsTimerFirst(w, connect, browser) ==
  LET w0 == [w EXCEPT !.sess.timeoutId = TimeoutId,
                      !.platform.timer = "armed",
                      !.platform.timerMs = DISCOVERY_TIMEOUT_MS]
  IN IF connect # "ok"
       THEN Reject(w0, Error("Failed to connect to system D-Bus", "error"))
       ELSE LET w1 == [w0 EXCEPT !.sess.bus = "system",
                                 !.sess.browserSignalId = ItemNewId,
                                 !.sess.allForNowSignalId = AllForNowId,
                                 !.sess.failureSignalId = FailureId,
                                 !.sess.resolverFoundSignalId = ResolverFoundId,
                                 !.sess.resolverFailureSignalId = ResolverFailureId,
                                 !.platform.subscribed = SignalIds]
                w2 == ServiceBrowserNew(w1)
            IN IF browser = "throws"
                 THEN Complete(w2, Error("Failed to initiate service browser", "error"))
                 ELSE [w2 EXCEPT !.platform.browserCall = "inflight",
                                 !.platform.browserOutcome = browser]

\* the executor of the promise, from getSystemBus to the ServiceBrowserNew call
Executor(w, connect, browser) ==
  IF connect # "ok"
    THEN Reject(w, Error("Failed to connect to system D-Bus", "error"))
    ELSE LET w1 == [w EXCEPT !.sess.bus = "system",
                             !.sess.timeoutId = TimeoutId,
                             !.platform.timer = "armed",
                             !.platform.timerMs = DISCOVERY_TIMEOUT_MS,
                             !.sess.browserSignalId = ItemNewId,
                             !.sess.allForNowSignalId = AllForNowId,
                             !.sess.failureSignalId = FailureId,
                             !.sess.resolverFoundSignalId = ResolverFoundId,
                             !.sess.resolverFailureSignalId = ResolverFailureId,
                             !.platform.subscribed = SignalIds]
             w2 == ServiceBrowserNew(w1)
         IN IF browser = "throws"
              THEN Complete(w2, Error("Failed to initiate service browser", "error"))
              ELSE [w2 EXCEPT !.platform.browserCall = "inflight",
                              !.platform.browserOutcome = browser]

(* ------------------------------ the daemon ---------------------------- *)

\* one more signal is delivered to the connection
Delivered(w) == [w EXCEPT !.platform.signals = @ + 1]

\* a callback can run once its subscription was made; one dispatched before
\* signal_unsubscribe can still run after it
CanDeliver(id) ==
  /\ pc = "started"
  /\ id \in platform.subscribed
  /\ platform.signals < MaxSignals

\* browsers that exist at the daemon
LiveBrowsers ==
  {OtherBrowser} \cup
  (IF platform.browserCall # "none" /\ platform.browserOutcome = "ok" THEN {OwnBrowser} ELSE {})

\* resolvers that exist or may exist at the daemon: another client's, those
\* created for this session, and those of calls not yet answered
LiveResolvers ==
  {OtherResolver} \cup platform.created \cup {c.path : c \in platform.resolverCalls}

Created(w, path) ==
  IF path = OtherResolver THEN w ELSE [w EXCEPT !.platform.created = @ \cup {path}]

(* ------------------------------- actions ------------------------------ *)

DiscoverLights ==
  /\ pc = "call"
  /\ pc' = "started"
  /\ \E connect \in {"ok", "error"}, browser \in {"ok", "error", "throws"} :
       Commit(Executor(World, connect, browser))

ItemNewSignal ==
  /\ CanDeliver(ItemNewId)
  /\ platform.itemNews < MaxItemNew
  /\ \E path \in LiveBrowsers, params \in ItemParams :
       Commit(OnItemNew([Delivered(World) EXCEPT !.platform.itemNews = @ + 1], path, params))
  /\ UNCHANGED pc

AllForNowSignal ==
  /\ CanDeliver(AllForNowId)
  /\ \E path \in LiveBrowsers : Commit(OnAllForNow(Delivered(World), path))
  /\ UNCHANGED pc

BrowserFailureSignal ==
  /\ CanDeliver(FailureId)
  /\ \E path \in LiveBrowsers, msg \in BrowserErrors :
       Commit(OnBrowserFailure(Delivered(World), path, <<msg>>))
  /\ UNCHANGED pc

ResolverFoundSignal ==
  /\ CanDeliver(ResolverFoundId)
  /\ \E path \in LiveResolvers, params \in FoundParams :
       Commit(OnResolverFound(Created(Delivered(World), path), path, params))
  /\ UNCHANGED pc

ResolverFailureSignal ==
  /\ CanDeliver(ResolverFailureId)
  /\ \E path \in LiveResolvers :
       Commit(OnResolverFailure(Created(Delivered(World), path), path))
  /\ UNCHANGED pc

TimeoutFires ==
  /\ platform.timer = "armed"
  /\ Commit(OnTimeout([World EXCEPT !.platform.timer = "fired"]))
  /\ UNCHANGED pc

ServiceBrowserNewReply ==
  /\ platform.browserCall = "inflight"
  /\ Commit(OnBrowserReply([World EXCEPT !.platform.browserCall = "done"],
                           platform.browserOutcome))
  /\ UNCHANGED pc

ServiceResolverNewReply ==
  /\ \E c \in platform.resolverCalls :
       \E ok \in (IF c.path \in platform.created THEN {TRUE} ELSE BOOLEAN) :
         Commit(OnResolverReply(
                  [(IF ok THEN Created(World, c.path) ELSE World)
                     EXCEPT !.platform.resolverCalls = @ \ {c}],
                  c.path, ok))
  /\ UNCHANGED pc

Init ==
  /\ pc = "call"
  /\ sess = InitSess
  /\ platform = InitPlatform
  /\ promise = InitPromise
  /\ trace = InitTrace
  /\ direct = <<>>
  /\ avahi = <<>>
  /\ toggle = <<>>
  /\ item = <<>>
  /\ elgatoLight = <<>>
  /\ parser = <<>>

Next ==
  \/ DiscoverLights
  \/ ItemNewSignal
  \/ AllForNowSignal
  \/ BrowserFailureSignal
  \/ ResolverFoundSignal
  \/ ResolverFailureSignal
  \/ TimeoutFires
  \/ ServiceBrowserNewReply
  \/ ServiceResolverNewReply

Spec == Init /\ [][Next]_vars

\* the GLib main loop runs an armed timeout source when its time has come
LiveSpec == Spec /\ WF_vars(TimeoutFires)

(* ------------- two sessions, one buffering and one not ---------------- *)

PairCommit(w, d) ==
  \E v \in {w} :
    /\ sess' = v.sess
    /\ platform' = v.platform
    /\ promise' = v.promise
    /\ trace' = v.trace
    /\ direct' = <<d>>
    /\ UNCHANGED others

\* a signal as it is dispatched to its subscription callback
ItemNewArrives(w, path, params) ==
  OnItemNew([Delivered(w) EXCEPT !.platform.itemNews = @ + 1], path, params)

AllForNowArrives(w, path) == OnAllForNow(Delivered(w), path)

BrowserFailureArrives(w, path, params) == OnBrowserFailure(Delivered(w), path, params)

ResolverFoundArrives(w, path, params) ==
  OnResolverFound(Created(Delivered(w), path), path, params)

ResolverFailureArrives(w, path) == OnResolverFailure(Created(Delivered(w), path), path)

Signal(signalName, path, params) ==
  [signalName |-> signalName, path |-> path, params |-> params]

\* the signals early[i..] of the browser dispatched in arrival order
RECURSIVE DeliverBrowserSignals(_, _, _)
DeliverBrowserSignals(w, early, i) ==
  IF i > Len(early)
    THEN w
    ELSE LET e == early[i]
             w1 == IF e.signalName = "ItemNew" THEN ItemNewArrives(w, e.path, e.params)
                   ELSE IF e.signalName = "AllForNow" THEN AllForNowArrives(w, e.path)
                   ELSE BrowserFailureArrives(w, e.path, e.params)
         IN DeliverBrowserSignals(w1, early, i + 1)

\* the signals early[i..] of one resolver dispatched in arrival order
RECURSIVE DeliverResolverSignals(_, _, _, _)
DeliverResolverSignals(w, early, resolverPath, i) ==
  IF i > Len(early)
    THEN w
    ELSE LET e == early[i]
             w1 == IF e.path # resolverPath THEN w
                   ELSE IF e.signalName = "Found"
                     THEN ResolverFoundArrives(w, e.path, e.params)
                     ELSE ResolverFailureArrives(w, e.path)
         IN DeliverResolverSignals(w1, early, resolverPath, i + 1)

\* a browser signal is early while the ServiceBrowserNew reply is in flight
DirectBrowserSignal(e) ==
  IF platform.browserCall = "inflight"
    THEN [Direct EXCEPT !.earlyBrowser = Append(@, e)]
    ELSE [Direct EXCEPT !.world = DeliverBrowserSignals(@, <<e>>, 1)]

\* a resolver signal is early while the ServiceResolverNew reply of its path
\* is in flight
DirectResolverSignal(e) ==
  IF e.path \in {c.path : c \in platform.resolverCalls}
    THEN [Direct EXCEPT !.earlyResolver = Append(@, e)]
    ELSE [Direct EXCEPT !.world = DeliverResolverSignals(@, <<e>>, e.path, 1)]

PairDiscoverLights ==
  /\ pc = "call"
  /\ pc' = "started"
  /\ \E connect \in {"ok", "error"}, browser \in {"ok", "error", "throws"} :
       PairCommit(Executor(World, connect, browser),
                  [Direct EXCEPT !.world = Executor(@, connect, browser)])

PairItemNewSignal ==
  /\ CanDeliver(ItemNewId)
  /\ platform.itemNews < MaxItemNew
  /\ \E path \in LiveBrowsers, params \in ItemParams :
       PairCommit(ItemNewArrives(World, path, params),
                  DirectBrowserSignal(Signal("ItemNew", path, params)))
  /\ UNCHANGED pc

PairAllForNowSignal ==
  /\ CanDeliver(AllForNowId)
  /\ \E path \in LiveBrowsers :
       PairCommit(AllForNowArrives(World, path),
                  DirectBrowserSignal(Signal("AllForNow", path, <<>>)))
  /\ UNCHANGED pc

PairBrowserFailureSignal ==
  /\ CanDeliver(FailureId)
  /\ \E path \in LiveBrowsers, msg \in BrowserErrors :
       PairCommit(BrowserFailureArrives(World, path, <<msg>>),
                  DirectBrowserSignal(Signal("Failure", path, <<msg>>)))
  /\ UNCHANGED pc

PairResolverFoundSignal ==
  /\ CanDeliver(ResolverFoundId)
  /\ \E path \in LiveResolvers, params \in FoundParams :
       PairCommit(ResolverFoundArrives(World, path, params),
                  DirectResolverSignal(Signal("Found", path, params)))
  /\ UNCHANGED pc

PairResolverFailureSignal ==
  /\ CanDeliver(ResolverFailureId)
  /\ \E path \in LiveResolvers :
       PairCommit(ResolverFailureArrives(World, path),
                  DirectResolverSignal(Signal("Failure", path, <<>>)))
  /\ UNCHANGED pc

\* the reply is processed in both sessions; the direct one is then given the
\* early browser signals
PairServiceBrowserNewReply ==
  /\ platform.browserCall = "inflight"
  /\ PairCommit(
       OnBrowserReply([World EXCEPT !.platform.browserCall = "done"], platform.browserOutcome),
       [Direct EXCEPT
          !.world = DeliverBrowserSignals(
                      OnBrowserReply([@ EXCEPT !.platform.browserCall = "done"],
                                     @.platform.browserOutcome),
                      Direct.earlyBrowser, 1),
          !.earlyBrowser = <<>>,
          !.lateBrowser = @ \/ Direct.earlyBrowser # <<>>])
  /\ UNCHANGED pc

\* the reply is processed in both sessions; the direct one is then given the
\* early signals of that resolver
PairServiceResolverNewReply ==
  /\ \E c \in platform.resolverCalls :
       \E ok \in (IF c.path \in platform.created THEN {TRUE} ELSE BOOLEAN) :
         PairCommit(
           OnResolverReply(
             [(IF ok THEN Created(World, c.path) ELSE World)
                EXCEPT !.platform.resolverCalls = @ \ {c}],
             c.path, ok),
           [Direct EXCEPT
              !.world = DeliverResolverSignals(
                          OnResolverReply(
                            [(IF ok THEN Created(@, c.path) ELSE @)
                               EXCEPT !.platform.resolverCalls =
                                        {x \in @ : x.path # c.path}],
                            c.path, ok),
                          Direct.earlyResolver, c.path, 1),
              !.earlyResolver = SelectSeq(@, LAMBDA e : e.path # c.path),
              !.lateResolver = @ \/ (\E i \in 1..Len(Direct.earlyResolver) :
                                       Direct.earlyResolver[i].path = c.path)])
  /\ UNCHANGED pc

PairNext ==
  \/ PairDiscoverLights
  \/ PairItemNewSignal
  \/ PairAllForNowSignal
  \/ PairBrowserFailureSignal
  \/ PairResolverFoundSignal
  \/ PairResolverFailureSignal
  \/ PairServiceBrowserNewReply
  \/ PairServiceResolverNewReply

\* no timeout fires in either session
PairSpec == Init /\ [][PairNext]_vars

(* ------------------------ isAvahiAvailable, run ------------------------ *)

DiscoveryVars == <<sess, platform, promise, trace, pc, direct>>

CallIsAvahiAvailable ==
  /\ Len(avahi) < MaxAvahiCalls
  /\ \E connect \in {"ok", "throws"}, call \in {"ok", "throws"} :
       avahi' = Append(avahi, IsAvahiAvailable(InitAvahiCall, connect, call))
  /\ UNCHANGED <<DiscoveryVars, toggle, item, elgatoLight, parser>>

GetVersionStringReply ==
  /\ \E i \in DOMAIN avahi :
       /\ avahi[i].pc = "inflight"
       /\ \E reply \in {"valid", "error"} :
            avahi' = [avahi EXCEPT ![i] = OnVersionReply(@, reply)]
  /\ UNCHANGED <<DiscoveryVars, toggle, item, elgatoLight, parser>>

AvahiNext ==
  \/ CallIsAvahiAvailable
  \/ GetVersionStringReply

AvahiSpec == Init /\ [][AvahiNext]_vars

(* -------------------------- ElgatoToggle, run -------------------------- *)

ToggleCommit(t) ==
  /\ toggle' = <<t>>
  /\ UNCHANGED <<DiscoveryVars, avahi, item, elgatoLight, parser>>

TaskAt(pc1) ==
  IF toggle = <<>> THEN {}
  ELSE {i \in 1..Len(toggle[1].tasks) : toggle[1].tasks[i].pc = pc1}

NewToggle ==
  /\ toggle = <<>>
  /\ \E cached \in CachedSettings : ToggleCommit(Construct(InitToggle, cached))

CachedStatesFetched ==
  \E i \in TaskAt("loadRefresh") : ToggleCommit(AfterRefresh(toggle[1], i, "loaded"))

CachedLightsLoaded ==
  \E i \in TaskAt("loaded") : ToggleCommit(AfterLoad(toggle[1], i))

AvahiAnswered ==
  \E i \in TaskAt("avahi"), available \in {"true", "false", "rejects"} :
    ToggleCommit(AfterAvahi(toggle[1], i, available))

DiscoveryResolved ==
  \E i \in TaskAt("discover"), discovered \in DiscoveredLists :
    ToggleCommit(AfterDiscover(toggle[1], i, discovered))

DiscoveryRejected ==
  \E i \in TaskAt("discover") : ToggleCommit(DiscoverLightsCatch(toggle[1], i))

StatesFetched ==
  \E i \in TaskAt("refresh") : ToggleCommit(AfterRefresh(toggle[1], i, "finally"))

OperationEnds ==
  \E i \in TaskAt("finally") : ToggleCommit(Finally(toggle[1], i))

\* the button emits clicked only while it is reactive and the handler is
\* connected
RefreshClicked ==
  /\ toggle # <<>>
  /\ toggle[1].connected
  /\ toggle[1].reactive
  /\ Len(toggle[1].tasks) < MaxTasks
  /\ ToggleCommit(OnRefreshClicked(toggle[1]))

ToggleClicked ==
  /\ toggle # <<>>
  /\ toggle[1].connected
  /\ Len(toggle[1].tasks) < MaxTasks
  /\ ToggleCommit(OnToggleClicked(toggle[1]))

TogglesSettled ==
  \E i \in TaskAt("toggling") : ToggleCommit(AfterToggle(toggle[1], i))

DestroyToggle ==
  /\ toggle # <<>>
  /\ ~toggle[1].destroyed
  /\ ToggleCommit(Destroy(toggle[1]))

ToggleNext ==
  \/ NewToggle
  \/ CachedStatesFetched
  \/ CachedLightsLoaded
  \/ AvahiAnswered
  \/ DiscoveryResolved
  \/ DiscoveryRejected
  \/ StatesFetched
  \/ OperationEnds
  \/ RefreshClicked
  \/ ToggleClicked
  \/ TogglesSettled
  \/ DestroyToggle

ToggleSpec == Init /\ [][ToggleNext]_vars

(* ------------------------ LightControlItem, run ------------------------ *)

ItemCommit(it) ==
  /\ item' = <<it>>
  /\ UNCHANGED <<DiscoveryVars, avahi, toggle, elgatoLight, parser>>

Pending(it, slider) == {s \in it.sources : s.slider = slider}

SliderValue(it, slider) ==
  IF slider = "brightness" THEN it.brightnessSlider ELSE it.tempSlider

\* the user moves a slider to another position; a change that finds no timeout
\* of its slider armed starts a burst
SliderChanged ==
  /\ item # <<>>
  /\ ~item[1].destroyed
  /\ item[1].trace.changes < MaxChanges
  /\ \E slider \in Sliders, position \in SliderPositions :
       /\ ~SamePosition(position, SliderValue(item[1], slider))
       /\ ItemCommit(
            [SetSliderValue(item[1], slider, position)
               EXCEPT !.trace.changes = @ + 1,
                      !.trace.lastPosition[slider] = position,
                      !.trace.bursts[slider] =
                         IF Pending(item[1], slider) = {} THEN @ + 1 ELSE @])

\* the light's state was fetched or changed and updateState() shows it
StateUpdated ==
  /\ item # <<>>
  /\ ~item[1].destroyed
  /\ \E state \in LightStates :
       /\ state # item[1].light
       /\ ItemCommit(UpdateState([item[1] EXCEPT !.light = state]))

\* 100 ms after it was armed, a timeout still armed runs its callback
DebounceTimeoutFires ==
  /\ item # <<>>
  /\ \E source \in item[1].sources :
    ItemCommit(OnDebounceTimeout([item[1] EXCEPT !.sources = @ \ {source}], source))

DestroyItem ==
  /\ item # <<>>
  /\ ~item[1].destroyed
  /\ ItemCommit(ItemDestroy(item[1]))

\* _init for a light just constructed
NewItem ==
  /\ item = <<>>
  /\ ItemCommit(InitItem)

ItemNext ==
  \/ NewItem
  \/ SliderChanged
  \/ StateUpdated
  \/ DebounceTimeoutFires
  \/ DestroyItem

ItemSpec == Init /\ [][ItemNext]_vars

(* -------------------------- ElgatoLight, run --------------------------- *)

LightCommit(l) ==
  /\ elgatoLight' = <<l>>
  /\ UNCHANGED <<DiscoveryVars, avahi, toggle, item, parser>>

\* new ElgatoLight(name, host, port)
NewLight ==
  /\ elgatoLight = <<>>
  /\ LightCommit(InitLight)

OpsAt(pc1) ==
  IF elgatoLight = <<>> THEN {}
  ELSE {i \in 1..Len(elgatoLight[1].ops) :
          elgatoLight[1].ops[i].pc = "await" /\ elgatoLight[1].ops[i].req.pc = pc1}

CanStart == elgatoLight # <<>> /\ Len(elgatoLight[1].ops) < MaxOps

CallSendWithRetry ==
  /\ CanStart
  /\ \E method \in {"GET", "PUT"}, maxRetries \in 0..MaxRetries :
       LightCommit(SendOnly(elgatoLight[1], method, maxRetries))

CallSetState ==
  /\ CanStart
  /\ \E on \in BOOLEAN, level \in Levels :
       LightCommit(SetState(elgatoLight[1], on, level.brightness, level.temperature))

CallSetOn ==
  /\ CanStart
  /\ \E on \in BOOLEAN : LightCommit(SetOn(elgatoLight[1], on))

\* send_and_read_async settles: a response with a status, or a network error
SendSettles ==
  \E i \in OpsAt("sending") :
    \E outcome \in Outcomes :
      \E bytes \in IF outcome.status = 200 /\ elgatoLight[1].ops[i].req.method = "GET"
                     THEN LightsBodies ELSE {NoBytes} :
        LightCommit([elgatoLight[1] EXCEPT !.ops[i].req = OnSendSettled(@, outcome, bytes)])

\* the timeout of _delay fires
DelayElapses ==
  \E i \in OpsAt("delaying") :
    LightCommit([elgatoLight[1] EXCEPT !.ops[i].req = OnDelayElapsed(@)])

\* the awaited _sendWithRetry call returned to the operation
RequestReturns ==
  \E i \in OpsAt("done") : LightCommit(Continue(elgatoLight[1], i))

\* operations that returned are forgotten
OpsForgotten ==
  /\ elgatoLight # <<>>
  /\ elgatoLight[1].ops # <<>>
  /\ \A i \in 1..Len(elgatoLight[1].ops) : elgatoLight[1].ops[i].pc = "done"
  /\ LightCommit([elgatoLight[1] EXCEPT !.ops = <<>>])

\* setState and setOn, each with its _sendWithRetry calls
LightNext ==
  \/ NewLight
  \/ CallSetState
  \/ CallSetOn
  \/ SendSettles
  \/ DelayElapses
  \/ RequestReturns
  \/ OpsForgotten

LightSpec == Init /\ [][LightNext]_vars

(* ------------------------ parseAvahiOutput, run ------------------------ *)

ParserCommit(v) ==
  /\ parser' = <<v>>
  /\ UNCHANGED <<DiscoveryVars, avahi, toggle, item, elgatoLight>>

\* the output given to the parser, line by line, and what it returned
ParserState == IF parser = <<>> THEN [output |-> <<>>, called |-> FALSE, lights |-> <<>>]
               ELSE parser[1]

\* avahi-browse prints another line
OutputLine ==
  /\ ~ParserState.called
  /\ Len(ParserState.output) < MaxLines
  /\ \E line \in AvahiLines :
       ParserCommit([ParserState EXCEPT !.output = Append(@, line)])

CallParseAvahiOutput ==
  /\ ~ParserState.called
  /\ ParserCommit([ParserState EXCEPT !.called = TRUE,
                                      !.lights = ParseAvahiOutput(ParserState.output)])

ParserNext ==
  \/ OutputLine
  \/ CallParseAvahiOutput

ParserSpec == Init /\ [][ParserNext]_vars

\* _sendWithRetry alone, called with every maxRetries; the timeouts of _delay
\* fire and the messages sent settle
RetryNext ==
  \/ NewLight
  \/ CallSendWithRetry
  \/ SendSettles
  \/ DelayElapses
  \/ RequestReturns
  \/ OpsForgotten

RetrySpec ==
  /\ Init
  /\ [][RetryNext]_vars
  /\ WF_vars(SendSettles)
  /\ WF_vars(DelayElapses)

TypeOK ==
  /\ pc \in {"call", "started"}
  /\ sess.completed \in BOOLEAN
  /\ sess.pendingResolvers \in Int
  /\ sess.resolverPaths \subseteq ResolverPaths

(* ------------------------------- claims ------------------------------- *)

SameAddressPort(a, b) == a.host = b.host /\ a.port = b.port

\* C1: in one discoverLights call `completed` is set at most once and the
\* promise's resolve and reject are invoked at most once in total, whatever
\* the order of signals, replies and the timeout.
C1_SettledAtMostOnce ==
  /\ trace.completions <= 1
  /\ sess.completed <=> trace.completions = 1
  /\ promise.resolveCalls + promise.rejectCalls <= 1

\* the timer completed the session, and a replayed AllForNow with no pending
\* resolver reached complete() afterwards
C1_Witness ==
  /\ platform.timer = "fired"
  /\ sess.allForNowReceived
  /\ sess.pendingResolvers = 0
  /\ promise.resolveCalls = 1

\* C2 (as claimed): once `completed` is true no step changes lights,
\* pendingResolvers, allForNowReceived, completedResolvers or freedResolvers.
C2_FrozenAfterCompleted ==
  [][sess.completed =>
       /\ sess.lights' = sess.lights
       /\ sess.pendingResolvers' = sess.pendingResolvers
       /\ sess.allForNowReceived' = sess.allForNowReceived
       /\ sess.completedResolvers' = sess.completedResolvers
       /\ sess.freedResolvers' = sess.freedResolvers]_vars

\* C3: a call whose bus connection failed is rejected by the executor; a call
\* whose connection succeeded reaches completed = true, with its promise
\* settled, provided the armed timer is eventually run.
C3_EventuallySettles ==
  /\ [](pc = "started" /\ sess.bus = null => promise.state = "rejected")
  /\ [](sess.completed => promise.state # "pending")
  /\ ((pc = "started" /\ sess.bus # null) ~> sess.completed)

\* the timer completed a session that still had a resolver pending
C3_Witness ==
  /\ platform.timer = "fired"
  /\ promise.state = "fulfilled"
  /\ sess.pendingResolvers > 0
  /\ ~sess.allForNowReceived

\* C4: lights never holds two entries with the same address and port, and at
\* the step that resolves the promise the result has exactly one entry for
\* each address:port of the Found signals processed.
C4_OneEntryPerAddressPort ==
  /\ [](\A i, j \in 1..Len(sess.lights) :
          SameAddressPort(sess.lights[i].value, sess.lights[j].value) => i = j)
  /\ [][promise.state = "pending" /\ promise.state' = "fulfilled" =>
          /\ \A i, j \in 1..Len(promise.value') :
               SameAddressPort(promise.value'[i], promise.value'[j]) => i = j
          /\ {<<promise.value'[i].host, promise.value'[i].port>> :
                i \in 1..Len(promise.value')} = trace.found']_vars

\* two resolvers reported the same address:port and the promise resolved
\* with one light
C4_Witness ==
  /\ promise.state = "fulfilled"
  /\ Len(promise.value) = 1
  /\ trace.skipped # {}
  /\ Cardinality(sess.completedResolvers) = 2

\* C5: an entry of lights is never overwritten or removed: every step keeps
\* each existing entry, with its name, host and port, at its place.
C5_FirstWriterWins ==
  [][\A i \in 1..Len(sess.lights) :
       i <= Len(sess.lights') /\ sess.lights'[i] = sess.lights[i]]_vars

\* a Found for an address:port already in lights, under another name, was
\* processed and the first entry is still there
C5_Witness ==
  \E v \in trace.skipped :
    \E i \in 1..Len(sess.lights) :
      /\ SameAddressPort(sess.lights[i].value, v)
      /\ sess.lights[i].value.name # v.name

\* C6: pendingResolvers is never negative, and no resolver path decrements it
\* more than once; a path in completedResolvers has decremented it once.
C6_PendingNeverNegative ==
  /\ sess.pendingResolvers >= 0
  /\ \A p \in ResolverPaths :
       /\ trace.decrements[p] <= 1
       /\ p \in sess.completedResolvers => trace.decrements[p] = 1

\* a terminal signal was handled twice for one resolver and the count is
\* back at zero
C6_Witness ==
  \E p \in ResolverPaths :
    /\ trace.terminals[p] >= 2
    /\ trace.decrements[p] = 1
    /\ sess.pendingResolvers = 0

\* C7: however often Found or Failure is handled for one resolver path, the
\* path decrements pendingResolvers once, sets at most one light and is sent
\* one Free.
C7_TerminalSignalsIdempotent ==
  \A p \in ResolverPaths :
    trace.terminals[p] >= 1 =>
      /\ trace.decrements[p] = 1
      /\ trace.lightSets[p] <= 1
      /\ platform.freeCalls[p] = 1

\* a Found that set a light was followed by another terminal signal for the
\* same path
C7_Witness ==
  \E p \in ResolverPaths :
    /\ trace.terminals[p] >= 2
    /\ trace.lightSets[p] = 1

\* C8 (as claimed): when the session has completed and every reply has been
\* processed, each resolver the daemon created for it has been sent Free once.
C8_ResolversFreed ==
  (sess.completed /\ platform.resolverCalls = {} /\ platform.browserCall # "inflight") =>
    \A p \in platform.created : platform.freeCalls[p] = 1

\* C9 (as claimed): when the session has completed and the successful
\* ServiceBrowserNew reply has been processed, Free was issued on the browser.
C9_BrowserFreed ==
  (sess.completed /\ platform.browserCall = "done" /\ platform.browserOutcome = "ok") =>
    platform.freeCalls[OwnBrowser] >= 1

\* C10: Free is issued on the session's browser path at most once, and never
\* on another browser's path.
C10_BrowserFreedAtMostOnce ==
  /\ platform.freeCalls[OwnBrowser] <= 1
  /\ platform.freeCalls[OtherBrowser] = 0

\* the replay of a buffered AllForNow completed the session and freed the
\* browser, and the session was left with no browser path
C10_Witness ==
  /\ platform.freeCalls[OwnBrowser] = 1
  /\ sess.completed
  /\ sess.allForNowReceived
  /\ sess.browserPath = null
  /\ platform.signals > 1

\* the message of an Error has `part` among the parts of its template
Contains(message, part) == \E i \in 1..Len(message) : message[i] = part

AddressPorts(values) == {<<values[i].host, values[i].port>> : i \in 1..Len(values)}

\* the step is the timeout callback
TimeoutStep == platform.timer = "armed" /\ platform.timer' = "fired"

\* cleanup runs at most once, and once in every completed session; when
\* resolve or reject is first invoked in a started session, cleanup has run,
\* the five subscriptions are unsubscribed, the timer is not armed, and Free
\* has been issued on every resolver path and on the browser path the
\* session has learned
CleanupBeforeSettle ==
  /\ trace.cleanups <= 1
  /\ sess.completed => trace.cleanups = 1
  /\ (promise.state # "pending" /\ sess.bus # null) =>
       LET a == trace.atSettle
       IN /\ a.cleanups = 1
          /\ a.platform.unsubscribed = SignalIds
          /\ a.sess.browserSignalId = NoId
          /\ a.sess.allForNowSignalId = NoId
          /\ a.sess.failureSignalId = NoId
          /\ a.sess.resolverFoundSignalId = NoId
          /\ a.sess.resolverFailureSignalId = NoId
          /\ a.platform.timer # "armed"
          /\ a.sess.timeoutId = NoId
          /\ \A p \in a.sess.resolverPaths : a.platform.freeCalls[p] = 1
          /\ a.sess.browserPath = null
          /\ (a.platform.browserCall = "done" /\ a.platform.browserOutcome = "ok") =>
               a.platform.freeCalls[OwnBrowser] = 1

\* C11 (as claimed): cleanup runs exactly once and before the promise
\* settles; when resolve or reject is invoked in a started session the
\* subscriptions are unsubscribed, the timer is not armed, and Free has been
\* issued for every browser and resolver the daemon created for the session.
C11_CleanupOnceBeforeSettle ==
  /\ CleanupBeforeSettle
  /\ (promise.state # "pending" /\ sess.bus # null) =>
       LET a == trace.atSettle
       IN /\ \A p \in a.platform.created : a.platform.freeCalls[p] = 1
          /\ (a.platform.browserCall # "none" /\ a.platform.browserOutcome = "ok") =>
               a.platform.freeCalls[OwnBrowser] = 1

\* C12: a session that resolves by another step than the timeout does so with
\* allForNowReceived and pendingResolvers = 0, and its result covers every
\* address:port found; and when, after AllForNow, the last pending resolver
\* settles, that step completes the session with the lights found.
C12_WaitsForPendingResolvers ==
  [][/\ (~sess.completed /\ sess.completed' /\ promise.state' = "fulfilled" /\ ~TimeoutStep) =>
          /\ sess.allForNowReceived'
          /\ sess.pendingResolvers' = 0
          /\ trace.found' \subseteq AddressPorts(promise.value')
     /\ (~sess.completed /\ sess.allForNowReceived
           /\ sess.pendingResolvers > 0 /\ sess.pendingResolvers' = 0) =>
          /\ sess.completed'
          /\ promise.state' = "fulfilled"
          /\ promise.value' = MapValues(sess.lights')
          /\ trace.found' \subseteq AddressPorts(promise.value')]_vars

\* AllForNow was handled with a resolver pending, and the session resolved
\* with a light when the resolvers had settled
C12_Witness ==
  /\ trace.pendingAtAllForNow >= 1
  /\ promise.state = "fulfilled"
  /\ platform.timer = "removed"
  /\ sess.pendingResolvers = 0
  /\ Len(promise.value) >= 1

\* the first buffered signal of the session's browser is AllForNow
AllForNowBufferedFirst ==
  \E i \in 1..Len(sess.bufferedBrowserSignals) :
    /\ sess.bufferedBrowserSignals[i].path = OwnBrowser
    /\ sess.bufferedBrowserSignals[i].signalName = "AllForNow"
    /\ \A j \in 1..(i - 1) : sess.bufferedBrowserSignals[j].path # OwnBrowser

\* C13: the step that first handles AllForNow in a session that is not
\* completed and has handled no ItemNew resolves the promise with the empty
\* list and removes the timer; an AllForNow buffered ahead of every other
\* signal of the browser does so in the step of the ServiceBrowserNew reply.
C13_AllForNowWithoutItems ==
  [][/\ (~sess.completed /\ ~sess.allForNowReceived /\ sess.allForNowReceived'
           /\ platform.nextResolver' = 1) =>
          /\ sess.completed'
          /\ promise.state' = "fulfilled"
          /\ promise.value' = <<>>
          /\ platform.timer' = "removed"
          /\ platform.removeTimeoutCalls' = 1
     /\ (~sess.completed /\ AllForNowBufferedFirst
           /\ platform.browserCall = "inflight" /\ platform.browserCall' = "done") =>
          /\ sess.completed'
          /\ promise.state' = "fulfilled"
          /\ promise.value' = <<>>
          /\ platform.timer' = "removed"]_vars

\* AllForNow was handled with nothing pending and the session resolved with
\* the empty list while the timer was still armed
C13_Witness ==
  /\ trace.pendingAtAllForNow = 0
  /\ platform.nextResolver = 1
  /\ promise.state = "fulfilled"
  /\ promise.value = <<>>
  /\ platform.timer = "removed"
  /\ platform.browserCall = "done"

\* C14: the timeout callback runs only in a session that is not completed,
\* and its step resolves the promise, never rejects it, with the values of
\* lights as they were.
C14_TimeoutResolvesWithLights ==
  [][TimeoutStep =>
       /\ ~sess.completed
       /\ sess.completed'
       /\ promise.state' = "fulfilled"
       /\ promise.value' = MapValues(sess.lights)
       /\ promise.resolveCalls' = 1
       /\ promise.rejectCalls' = 0]_vars

\* the timeout resolved with one light although AllForNow had been received
\* and a resolver was pending
C14_Witness ==
  /\ platform.timer = "fired"
  /\ promise.state = "fulfilled"
  /\ Len(promise.value) = 1
  /\ sess.allForNowReceived
  /\ sess.pendingResolvers > 0

\* C16: after a failed getSystemBus the promise is rejected with "Failed to
\* connect to system D-Bus" and nothing was started: no timer, no
\* subscription, no bus call, the closure variables as declared.
C16_ConnectFailureStartsNothing ==
  (pc = "started" /\ sess.bus = null) =>
    /\ promise.state = "rejected"
    /\ promise.rejectCalls = 1
    /\ Contains(promise.reason, "Failed to connect to system D-Bus")
    /\ platform.timer = "none"
    /\ platform.subscribed = {}
    /\ platform.browserCall = "none"
    /\ platform.resolverCalls = {}
    /\ \A p \in DOMAIN platform.freeCalls : platform.freeCalls[p] = 0
    /\ sess = InitSess

\* the call was made and the connection failed
C16_Witness ==
  /\ pc = "started"
  /\ sess.bus = null
  /\ promise.state = "rejected"

\* C17: the step that processes an error reply of ServiceBrowserNew in a
\* session that is not completed rejects the promise with "Failed to create
\* service browser"; when reject is invoked the timer is removed and the five
\* subscriptions are unsubscribed, and no Free is issued on a browser path.
C17_BrowserCreateFailureRejects ==
  [][(~sess.completed /\ platform.browserCall = "inflight" /\ platform.browserCall' = "done"
        /\ platform.browserOutcome = "error") =>
       /\ sess.completed'
       /\ promise.state' = "rejected"
       /\ Contains(promise.reason', "Failed to create service browser")
       /\ trace.atSettle'.platform.timer = "removed"
       /\ trace.atSettle'.platform.unsubscribed = SignalIds
       /\ \A b \in BrowserPaths : platform.freeCalls'[b] = 0]_vars

\* the error reply rejected a session that had buffered a signal
C17_Witness ==
  /\ promise.state = "rejected"
  /\ Contains(promise.reason, "Failed to create service browser")
  /\ platform.browserCall = "done"
  /\ platform.signals >= 1

\* C18: the step in which handleBrowserFailure runs in a session that is not
\* completed completes it and rejects the promise with "Service browser
\* failed" and the text of that signal, whatever pendingResolvers and lights
\* are; every tracked resolver has then been sent Free.
C18_BrowserFailureIsTerminal ==
  [][(~sess.completed /\ Len(trace.browserFailures') > Len(trace.browserFailures)) =>
       LET errorMsg == trace.browserFailures'[Len(trace.browserFailures) + 1]
       IN /\ sess.completed'
          /\ promise.state' = "rejected"
          /\ promise.resolveCalls' = 0
          /\ Contains(promise.reason', "Service browser failed")
          /\ Contains(promise.reason', errorMsg)
          /\ \A p \in sess.resolverPaths' : platform.freeCalls'[p] = 1]_vars

\* a browser Failure rejected a session that had a light and a tracked
\* resolver still pending, and that resolver was freed
C18_Witness ==
  /\ promise.state = "rejected"
  /\ Contains(promise.reason, "Service browser failed")
  /\ Len(sess.lights) >= 1
  /\ sess.pendingResolvers > 0
  /\ \E p \in sess.resolverPaths \ sess.completedResolvers : platform.freeCalls[p] = 1

ConnectErrors ==
  {"Failed to connect to system D-Bus", "Failed to create service browser",
   "Failed to initiate service browser"}

\* C19 (as claimed): a rejection comes from the connection or from the
\* creation of the browser only.
C19_RejectsOnlyOnConnectOrCreate ==
  promise.state = "rejected" => promise.reason[1] \in ConnectErrors

\* C19 (amended): a rejection comes from the connection, from the creation of
\* the browser, or from a Failure signal of the session's browser, each only
\* when that failure happened; every other completed session has resolved
\* with a list of lights.
C19_RejectionCauses ==
  /\ promise.state = "rejected" =>
       \/ /\ promise.reason[1] = "Failed to connect to system D-Bus"
          /\ sess.bus = null
       \/ /\ promise.reason[1] = "Failed to create service browser"
          /\ platform.browserCall = "done"
          /\ platform.browserOutcome = "error"
       \/ /\ promise.reason[1] = "Failed to initiate service browser"
          /\ sess.bus # null
          /\ platform.browserCall = "none"
       \/ /\ promise.reason[1] = "Service browser failed"
          /\ trace.browserFailures # <<>>
          /\ promise.reason[3] = trace.browserFailures[1]
  /\ sess.completed => promise.state # "pending"
  /\ promise.state = "fulfilled" =>
       \A i \in 1..Len(promise.value) :
         promise.value[i] \in [name : ServiceNames, host : Addresses, port : Ports]

\* a browser Failure rejected a session in which a resolver had failed
\* without ending it
C19_Witness ==
  /\ promise.state = "rejected"
  /\ promise.reason[1] = "Service browser failed"
  /\ trace.failed # {}

\* C20: a step in which a resolver fails (Failure signal, or failed
\* ServiceResolverNew reply) leaves lights as it was, takes one from
\* pendingResolvers, invokes no reject, completes the session if AllForNow was
\* received and nothing is pending, and a promise it settles is resolved
\* with the lights found.
C20_ResolverFailureNotFatal ==
  [][(trace.failed' # trace.failed) =>
       /\ sess.lights' = sess.lights
       /\ sess.pendingResolvers' = sess.pendingResolvers - 1
       /\ promise.rejectCalls' = promise.rejectCalls
       /\ (sess.allForNowReceived' /\ sess.pendingResolvers' = 0) => sess.completed'
       /\ (promise.state = "pending" /\ promise.state' # "pending") =>
            /\ promise.state' = "fulfilled"
            /\ promise.value' = MapValues(sess.lights)]_vars

\* a resolver failed, another found a light, and the session resolved with
\* that light through AllForNow
C20_Witness ==
  /\ trace.failed # {}
  /\ promise.state = "fulfilled"
  /\ platform.timer = "removed"
  /\ Len(promise.value) = 1

\* C15: at every point of two sessions given the same signals and replies,
\* one buffering the signals that arrive before the reply that makes their
\* path known and one receiving them right after that reply, the promises
\* are in the same state with the same list or error, and until completion
\* lights, pendingResolvers, allForNowReceived and the resolvers settled are
\* the same; once the replies are processed no buffered signal of a known
\* path is left.
C15_BufferingTransparent ==
  /\ promise = Direct.world.promise
  /\ sess.completed = Direct.world.sess.completed
  /\ ~sess.completed =>
       /\ sess.lights = Direct.world.sess.lights
       /\ sess.pendingResolvers = Direct.world.sess.pendingResolvers
       /\ sess.allForNowReceived = Direct.world.sess.allForNowReceived
       /\ sess.completedResolvers = Direct.world.sess.completedResolvers
       /\ trace.found = Direct.world.trace.found
       /\ (sess.browserPath # null => sess.bufferedBrowserSignals = <<>>)
       /\ \A i \in 1..Len(sess.bufferedResolverSignals) :
            sess.bufferedResolverSignals[i].path \notin sess.resolverPaths

\* both sessions resolved with a light although the buffering one had
\* received browser signals and a resolver signal before the replies
C15_Witness ==
  /\ Direct.lateBrowser
  /\ Direct.lateResolver
  /\ Direct.earlyBrowser = <<>>
  /\ Direct.earlyResolver = <<>>
  /\ promise.state = "fulfilled"
  /\ Len(promise.value) >= 1

\* a call that obtained the bus and issued GetVersionString resolves to a
\* boolean, true exactly when the reply was valid, and a call that could not
\* obtain the bus resolves to false
AvahiResultMatchesReply ==
  \A i \in DOMAIN avahi :
    /\ avahi[i].state = "fulfilled" =>
         /\ avahi[i].value \in BOOLEAN
         /\ avahi[i].value = TRUE <=> avahi[i].reply = "valid"
    /\ (avahi[i].pc = "done" /\ avahi[i].bus = "throws") =>
         (avahi[i].state = "fulfilled" /\ avahi[i].value = FALSE)
    /\ (avahi[i].pc = "done" /\ avahi[i].call = "ok") => avahi[i].state = "fulfilled"

\* C21 (as claimed): isAvahiAvailable never rejects; a call that has returned
\* or been answered has resolved to a boolean, true exactly when
\* GetVersionString returned a valid reply.
C21_AvahiNeverRejects ==
  /\ AvahiResultMatchesReply
  /\ \A i \in DOMAIN avahi :
       /\ avahi[i].state # "rejected"
       /\ avahi[i].pc = "done" => avahi[i].state = "fulfilled"

\* C22: the timeout callback runs at most once and only in a session that
\* is not completed; a completion by another step calls removeTimeout once on
\* the armed timer, and a timer that has fired is never passed to
\* removeTimeout.
C22_TimerDisarmedByCleanup ==
  [][/\ TimeoutStep => (~sess.completed /\ platform.removeTimeoutCalls' = 0)
     /\ platform.timer' = "armed" => platform.timer \in {"none", "armed"}
     /\ platform.timer' = "fired" => platform.timer \in {"armed", "fired"}
     /\ platform.timer = "fired" =>
          (platform.timer' = "fired" /\ platform.removeTimeoutCalls' = 0)
     /\ platform.removeTimeoutCalls' <= 1
     /\ (~sess.completed /\ sess.completed' /\ ~TimeoutStep) =>
          /\ platform.timer' = "removed"
          /\ platform.removeTimeoutCalls' = 1
          /\ sess.timeoutId' = NoId]_vars

\* a browser Failure completed the session, its cleanup removed the armed
\* timer, and signals were still delivered afterwards
C22_Witness ==
  /\ promise.state = "rejected"
  /\ Contains(promise.reason, "Service browser failed")
  /\ platform.timer = "removed"
  /\ platform.removeTimeoutCalls = 1
  /\ platform.signals = MaxSignals

\* C23: when ServiceBrowserNew is called the five subscriptions have been
\* made, it is called at most once, and a signal is delivered only to a
\* subscription that exists.
C23_SubscribedBeforeBrowserNew ==
  /\ trace.browserNewCalls <= 1
  /\ trace.browserNewCalls = 1 => trace.subscribedAtBrowserNew = SignalIds
  /\ platform.browserCall # "none" => trace.browserNewCalls = 1
  /\ platform.signals > 0 => platform.subscribed = SignalIds

\* ServiceBrowserNew was called with the subscriptions made, and a signal
\* that arrived before its reply was received and buffered
C23_Witness ==
  /\ trace.browserNewCalls = 1
  /\ trace.subscribedAtBrowserNew = SignalIds
  /\ platform.browserCall = "inflight"
  /\ Len(sess.bufferedBrowserSignals) >= 1

\* the session with the buffered signals of other browsers taken out
WithoutOtherBrowsers(w) ==
  [w EXCEPT !.sess.bufferedBrowserSignals = SelectSeq(@, LAMBDA e : e.path = OwnBrowser)]

\* what a handler may change: the session, the promise, and the calls made
\* on the bus and the timer
Effects(w) ==
  [sess |-> w.sess, promise |-> w.promise,
   resolverCalls |-> w.platform.resolverCalls, nextResolver |-> w.platform.nextResolver,
   freeCalls |-> w.platform.freeCalls, unsubscribed |-> w.platform.unsubscribed,
   timer |-> w.platform.timer]

\* C24: in every reachable state in which the browser path is known, an
\* ItemNew, AllForNow or Failure of another browser's path would leave the
\* session, the promise and the calls made as they are; and while the
\* ServiceBrowserNew reply is in flight, processing it has the same effect
\* as processing it with the other browsers' signals taken out of the buffer.
C24_OtherBrowsersIgnored ==
  /\ sess.browserPath # null =>
       /\ \A params \in ItemParams :
            Effects(OnItemNew(World, OtherBrowser, params)) = Effects(World)
       /\ Effects(OnAllForNow(World, OtherBrowser)) = Effects(World)
       /\ \A msg \in BrowserErrors :
            Effects(OnBrowserFailure(World, OtherBrowser, <<msg>>)) = Effects(World)
  /\ platform.browserCall = "inflight" =>
       Effects(OnBrowserReply(World, "ok")) =
         Effects(OnBrowserReply(WithoutOtherBrowsers(World), "ok"))

\* the browser path is known, an ItemNew was delivered, and no resolver was
\* started: the ItemNew came from another browser
C24_Witness ==
  /\ sess.browserPath = OwnBrowser
  /\ ~sess.completed
  /\ platform.itemNews >= 1
  /\ platform.nextResolver = 1
  /\ sess.pendingResolvers = 0

\* the buffered resolver signals of one path, in arrival order
BufferedFor(p) == SelectSeq(sess.bufferedResolverSignals, LAMBDA e : e.path = p)

\* C25: the step in which a ServiceResolverNew reply makes path p known
\* invokes a resolver handler once per buffered entry of p and for no other
\* path, the first of those entries being the one that takes effect, and
\* leaves in the buffer the entries of the other paths in their order.
C25_ResolverReplayExact ==
  [][\A c \in platform.resolverCalls \ platform.resolverCalls' :
       c.path \in sess.resolverPaths' =>
         LET p == c.path
             mine == BufferedFor(p)
         IN /\ sess.bufferedResolverSignals' =
                 SelectSeq(sess.bufferedResolverSignals, LAMBDA e : e.path # p)
            /\ trace.terminals'[p] = trace.terminals[p] + Len(mine)
            /\ \A q \in ResolverPaths \ {p} : trace.terminals'[q] = trace.terminals[q]
            /\ (mine # <<>> /\ p \notin sess.completedResolvers) =>
                 /\ p \in sess.completedResolvers'
                 /\ trace.decrements'[p] = trace.decrements[p] + 1
                 /\ IF mine[1].signalName = "Found"
                      THEN /\ trace.found' = trace.found \cup
                                {<<mine[1].params.address, mine[1].params.port>>}
                           /\ trace.failed' = trace.failed
                      ELSE /\ trace.failed' = trace.failed \cup {p}
                           /\ trace.found' = trace.found]_vars

\* a reply replayed the buffered signals of its resolver while a signal of
\* another resolver, whose reply is still in flight, stayed in the buffer
C25_Witness ==
  /\ trace.replayed # {}
  /\ \E p \in trace.replayed : trace.terminals[p] >= 1
  /\ Len(sess.bufferedResolverSignals) >= 1
  /\ \E c \in platform.resolverCalls :
       \E i \in 1..Len(sess.bufferedResolverSignals) :
         sess.bufferedResolverSignals[i].path = c.path

\* C26: in every state between callbacks, allForNowReceived with
\* pendingResolvers = 0 implies completed.
C26_CompletionReevaluated ==
  (sess.allForNowReceived /\ sess.pendingResolvers = 0) => sess.completed

\* AllForNow was handled with two resolvers pending; one failed, one found a
\* light, and the session completed when the second of them settled
C26_Witness ==
  /\ trace.pendingAtAllForNow = 2
  /\ trace.failed # {}
  /\ trace.found # {}
  /\ sess.allForNowReceived
  /\ sess.pendingResolvers = 0
  /\ sess.completed
  /\ platform.timer = "removed"

\* the operations (_initializeAsync, _onRefreshClicked) that have not ended
Running ==
  IF toggle = <<>> THEN {} ELSE
  {i \in 1..Len(toggle[1].tasks) :
     toggle[1].tasks[i].kind \in {"init", "refresh"} /\ toggle[1].tasks[i].pc # "done"}

\* the operations that are inside _discoverLights
InDiscoverLights ==
  IF toggle = <<>> THEN {} ELSE
  {i \in 1..Len(toggle[1].tasks) : toggle[1].tasks[i].pc \in {"avahi", "discover", "refresh"}}

\* C27: at most one operation is running and at most one is inside
\* _discoverLights, and _isDiscovering is true exactly while one is running.
C27_OneDiscoveryInFlight ==
  /\ Cardinality(Running) <= 1
  /\ Cardinality(InDiscoverLights) <= 1
  /\ toggle # <<>> => (toggle[1].isDiscovering <=> Running # {})

\* _initializeAsync has ended, refresh clicks during it started nothing, and
\* a later refresh click is inside discoverLights
C27_Witness ==
  /\ toggle # <<>>
  /\ Len(toggle[1].tasks) = 2
  /\ toggle[1].tasks[1].kind = "init"
  /\ toggle[1].tasks[1].pc = "done"
  /\ toggle[1].tasks[2].kind = "refresh"
  /\ toggle[1].tasks[2].pc = "discover"
  /\ toggle[1].isDiscovering

\* C28: once destroyed, no step rebuilds the menu, writes the status label,
\* writes the cached-lights setting, or updates the items and the toggle.
C28_NothingAfterDestroy ==
  [][(toggle # <<>> /\ toggle[1].destroyed) =>
       /\ toggle[1].trace.menuBuilds' = toggle[1].trace.menuBuilds
       /\ toggle[1].trace.statusWrites' = toggle[1].trace.statusWrites
       /\ toggle[1].trace.cacheWrites' = toggle[1].trace.cacheWrites
       /\ toggle[1].trace.stateWrites' = toggle[1].trace.stateWrites
       /\ toggle[1].lights' = toggle[1].lights
       /\ toggle[1].lightItems' = toggle[1].lightItems
       /\ toggle[1].statusText' = toggle[1].statusText
       /\ toggle[1].cached' = toggle[1].cached]_vars

\* the toggle was destroyed while its discovery was in flight, and the
\* operation has ended leaving "Discovering..." and no lights
C28_Witness ==
  /\ toggle # <<>>
  /\ toggle[1].destroyed
  /\ toggle[1].statusText = "Discovering..."
  /\ toggle[1].lights = <<>>
  /\ toggle[1].tasks # <<>>
  /\ \A i \in 1..Len(toggle[1].tasks) : toggle[1].tasks[i].pc = "done"
  /\ ~toggle[1].isDiscovering

\* after discoverLights resolved with a list that is not empty, for a toggle
\* not destroyed, the cached-lights setting is that list
NonEmptyDiscoverySaved ==
  [][(/\ toggle # <<>>
      /\ toggle[1].trace.resolves' > toggle[1].trace.resolves
      /\ toggle[1].trace.discovered' # <<>>) =>
       toggle[1].cached' = toggle[1].trace.discovered']_vars

\* C29 (as claimed): after discoverLights resolved, for a toggle not
\* destroyed, the cached-lights setting is the list it resolved with.
C29_CacheIsLastDiscovery ==
  [][(toggle # <<>> /\ toggle[1].trace.resolves' > toggle[1].trace.resolves) =>
       toggle[1].cached' = toggle[1].trace.discovered']_vars


\* the calls a slider's timeouts have made on the light
CallsOf(slider) ==
  IF item = <<>> THEN {}
  ELSE {i \in 1..Len(item[1].trace.calls) : item[1].trace.calls[i].slider = slider}

\* the value the handler computes for a slider position
ValueAt(slider, position) ==
  IF slider = "brightness" THEN BrightnessFromSlider(position)
  ELSE SliderToApi(position)

\* C30: per slider at most one debounce timeout is armed; while the item is
\* not destroyed every burst of changes has either its one timeout armed or
\* its one call made; a call carries the value of the slider's last change;
\* and once the item is destroyed no timeout is armed and no call is made.
C30_Debounced ==
  [][item # <<>> =>
       /\ \A slider \in Sliders :
            /\ Cardinality(Pending(item'[1], slider)) <= 1
            /\ ~item'[1].destroyed =>
                 Cardinality(CallsOf(slider)') + Cardinality(Pending(item'[1], slider))
                   = item'[1].trace.bursts[slider]
       /\ Len(item'[1].trace.calls) > Len(item[1].trace.calls) =>
            \E slider \in Sliders :
              /\ item'[1].trace.calls =
                   Append(item[1].trace.calls,
                          [slider |-> slider,
                           value |-> ValueAt(slider, item[1].trace.lastPosition[slider])])
              /\ Pending(item'[1], slider) = {}
       /\ item'[1].destroyed => item'[1].sources = {}
       /\ item[1].destroyed => item'[1].trace.calls = item[1].trace.calls]_vars

\* a burst of three brightness changes made one setBrightness call, with the
\* value of the last change, although updateState() moved the slider since
C30_Witness ==
  /\ item # <<>>
  /\ item[1].trace.changes = 3
  /\ item[1].trace.bursts = [brightness |-> 1, temperature |-> 0]
  /\ Len(item[1].trace.calls) = 1
  /\ item[1].trace.calls[1].slider = "brightness"
  /\ item[1].trace.calls[1].value =
       BrightnessFromSlider(item[1].trace.lastPosition["brightness"])
  /\ ~SamePosition(item[1].brightnessSlider, item[1].trace.lastPosition["brightness"])
  /\ item[1].sources = {}

\* the operations of the light that stand at their await
Awaiting(l) == {i \in 1..Len(l.ops) : l.ops[i].pc = "await"}

\* operation i stands in the same _sendWithRetry call before and after the step
SameCall(i) ==
  /\ i \in Awaiting(elgatoLight[1])
  /\ i \in Awaiting(elgatoLight'[1])
  /\ elgatoLight[1].ops[i].step = elgatoLight'[1].ops[i].step

\* operation i is inside a _sendWithRetry call that has not returned
InCall(i) ==
  /\ elgatoLight # <<>>
  /\ i \in Awaiting(elgatoLight[1])
  /\ elgatoLight[1].ops[i].req.pc # "done"

\* C31: a _sendWithRetry call sends at most maxRetries messages; it sends
\* again only after a 5xx status or a network error; status 200 returns
\* success at once and any other status below 500 returns failure at once;
\* and every call returns.
C31_BoundedRetries ==
  /\ [][elgatoLight # <<>> =>
          /\ \A i \in Awaiting(elgatoLight'[1]) :
               elgatoLight'[1].ops[i].req.sends <= elgatoLight'[1].ops[i].req.maxRetries
          /\ \A i \in 1..MaxOps : SameCall(i) =>
               LET r == elgatoLight[1].ops[i].req
                   r2 == elgatoLight'[1].ops[i].req
               IN  /\ r2.sends > r.sends =>
                        /\ r2.sends = r.sends + 1
                        /\ r.last.error \/ r.last.status >= 500
                   /\ (r.pc = "sending" /\ r2 # r /\ ~r2.last.error /\ r2.last.status = 200) =>
                        /\ r2.pc = "done"
                        /\ r2.result.success
                        /\ r2.sends = r.sends
                   /\ (/\ r.pc = "sending" /\ r2 # r /\ ~r2.last.error
                       /\ r2.last.status # 200 /\ r2.last.status < 500) =>
                        /\ r2.pc = "done"
                        /\ ~r2.result.success
                        /\ r2.sends = r.sends]_vars
  /\ \A i \in 1..MaxOps : InCall(i) ~> ~InCall(i)

\* a call with the default maxRetries returned failure after its third
\* message was answered with a 5xx status
C31_Witness ==
  /\ elgatoLight # <<>>
  /\ \E i \in Awaiting(elgatoLight[1]) :
       LET r == elgatoLight[1].ops[i].req
       IN  /\ r.pc = "done"
           /\ r.maxRetries = DefaultMaxRetries
           /\ r.sends = 3
           /\ r.last.status >= 500
           /\ ~r.result.success

\* the delay before the k-th retry is k * 1000 ms
DelaysLinear ==
  elgatoLight # <<>> =>
    \A i \in Awaiting(elgatoLight[1]) :
      LET r == elgatoLight[1].ops[i].req
      IN  /\ \A k \in 1..Len(r.delays) : r.delays[k] = k * 1000
          /\ Len(r.delays) = IF r.pc = "delaying" THEN r.sends ELSE Max(r.sends - 1, 0)

\* C32 (as claimed): a call with the default maxRetries = 3 whose messages all
\* failed with a 5xx status or a network error has waited 1 s, 2 s and 3 s.
C32_WaitsOneTwoThree ==
  elgatoLight # <<>> =>
    \A i \in Awaiting(elgatoLight[1]) :
      LET r == elgatoLight[1].ops[i].req
      IN  (/\ r.pc = "done"
           /\ r.maxRetries = DefaultMaxRetries
           /\ r.sends = r.maxRetries
           /\ r.last.error \/ r.last.status >= 500) =>
            r.delays = <<1000, 2000, 3000>>

\* the cached state of the light
Cache(l) == [on |-> l.on, brightness |-> l.brightness, temperature |-> l.temperature]

\* operation i of the given kind returns in this step from the given request
Returns(i, kind, step) ==
  /\ i \in Awaiting(elgatoLight[1])
  /\ elgatoLight[1].ops[i].kind = kind
  /\ elgatoLight[1].ops[i].step = step
  /\ i \in 1..Len(elgatoLight'[1].ops)
  /\ elgatoLight'[1].ops[i].pc = "done"

\* the integer nearest to the fraction x in [0, 400], halves going up
Nearest(x) ==
  CHOOSE k \in 0..400 : (2 * k - 1) * x[2] <= 2 * x[1] /\ 2 * x[1] < (2 * k + 1) * x[2]

\* a number brought into [lo, hi]
Clamped(lo, hi, k) == IF k < lo THEN lo ELSE IF k > hi THEN hi ELSE k

\* C33: when setState returns after a failed PUT it returns false and the
\* cache is as before; after a successful PUT it returns true and the cache
\* holds the requested on value and the brightness and temperature rounded
\* and clamped to [3, 100] and [143, 344], the values the PUT carried; and
\* no other step of a setState call changes the cache.
C33_SetStateCache ==
  [][elgatoLight # <<>> =>
       /\ \A i \in 1..MaxOps : Returns(i, "setState", "PUT") =>
            LET op == elgatoLight[1].ops[i]
                b == Clamped(3, 100, Nearest(op.args.brightness))
                t == Clamped(143, 344, Nearest(op.args.temperature))
            IN  IF op.req.result.success
                  THEN /\ elgatoLight'[1].ops[i].returned = TRUE
                       /\ Cache(elgatoLight'[1]) =
                            [on |-> op.on, brightness |-> b, temperature |-> t]
                       /\ op.req.method = "PUT"
                       /\ op.req.body =
                            [on |-> IF op.on THEN 1 ELSE 0,
                             brightness |-> b, temperature |-> t]
                  ELSE /\ elgatoLight'[1].ops[i].returned = FALSE
                       /\ Cache(elgatoLight'[1]) = Cache(elgatoLight[1])
       /\ Cache(elgatoLight'[1]) # Cache(elgatoLight[1]) =>
            \E i \in Awaiting(elgatoLight[1]) :
              /\ elgatoLight[1].ops[i].step = "PUT"
              /\ elgatoLight[1].ops[i].req.result.success
              /\ elgatoLight'[1].ops[i].pc = "done"
              /\ elgatoLight'[1].ops[i].returned = TRUE]_vars

\* setState(on, 250, 100) returned true: the cache holds 100 and 143
C33_Witness ==
  /\ elgatoLight # <<>>
  /\ \E i \in 1..Len(elgatoLight[1].ops) :
       /\ elgatoLight[1].ops[i].kind = "setState"
       /\ elgatoLight[1].ops[i].pc = "done"
       /\ elgatoLight[1].ops[i].returned = TRUE
  /\ elgatoLight[1].brightness = 100
  /\ elgatoLight[1].temperature = 143

Entries ==
  {i \in 1..Len(ParserState.output) :
     /\ ParserState.output[i][1] = "="
     /\ Len(ParserState.output[i]) >= 9
     /\ ParserState.output[i][3] = "IPv4"}

\* the list has one entry for each host and number the port field parses to
DedupByParsedPort ==
  ParserState.called =>
    Len(ParserState.lights) =
      Cardinality({<<ParserState.output[i][8], ParseInt(ParserState.output[i][9])>> :
                     i \in Entries})

\* C35 (as claimed): the list parseAvahiOutput returns never holds two
\* entries with the same host and the same port.
C35_NoTwoSameHostPort ==
  ParserState.called =>
    \A i, j \in 1..Len(ParserState.lights) :
      (/\ ParserState.lights[i].host = ParserState.lights[j].host
       /\ ParserState.lights[i].port = ParserState.lights[j].port) => i = j

\* C36: in every reachable state pendingResolvers is the number of
\* ServiceResolverNew calls whose reply has not been processed plus the number
\* of resolver paths in resolverPaths that are not in completedResolvers.
C36_Accounting ==
  sess.pendingResolvers =
    Cardinality(platform.resolverCalls)
      + Cardinality(sess.resolverPaths \ sess.completedResolvers)

\* a call in flight, a resolver waiting for its terminal signal, or one that
\* was counted down, with both kinds of term present
C36_Witness ==
  /\ platform.resolverCalls # {}
  /\ sess.resolverPaths \ sess.completedResolvers # {}
  /\ sess.pendingResolvers = 2
  /\ platform.signals > 2

\* C37: a resolver Found or Failure signal on a path that no
\* ServiceResolverNew reply returned to the session is only buffered: no light
\* is inserted for it, pendingResolvers is not counted down for it and it is
\* never freed; completedResolvers is a subset of freedResolvers, which is a
\* subset of resolverPaths, and only resolvers created for the session are freed.
C37_Isolation ==
  /\ \A path \in ResolverPaths \ sess.resolverPaths :
       /\ trace.terminals[path] = 0
       /\ trace.lightSets[path] = 0
       /\ trace.decrements[path] = 0
       /\ platform.freeCalls[path] = 0
  /\ sess.completedResolvers \subseteq sess.freedResolvers
  /\ sess.freedResolvers \subseteq sess.resolverPaths
  /\ \A path \in ResolverPaths :
       platform.freeCalls[path] > 0 => path \in platform.created \ {OtherResolver}

\* both terminal signals of another client's resolver were delivered while the
\* session was running, and a resolver of its own was completed and freed
C37_Witness ==
  /\ \E i, j \in 1..Len(sess.bufferedResolverSignals) :
       /\ sess.bufferedResolverSignals[i].path = OtherResolver
       /\ sess.bufferedResolverSignals[i].signalName = "Found"
       /\ sess.bufferedResolverSignals[j].path = OtherResolver
       /\ sess.bufferedResolverSignals[j].signalName = "Failure"
  /\ sess.completedResolvers # {}
  /\ \E path \in sess.freedResolvers : platform.freeCalls[path] = 1

\* C38 (as claimed): once the session has completed it makes no
\* ServiceResolverNew call and does not increment pendingResolvers.
C38_NoResolverAfterCompletion ==
  [][sess.completed =>
       /\ platform.nextResolver' = platform.nextResolver
       /\ sess'.pendingResolvers <= sess.pendingResolvers]_vars

\* what holds of a completed session: no signal callback makes a call or
\* counts a resolver, only the ServiceBrowserNew reply can
NoResolverAfterCompletionBySignal ==
  [][(sess.completed /\ platform.browserCall' = platform.browserCall) =>
       /\ platform.nextResolver' = platform.nextResolver
       /\ sess'.pendingResolvers <= sess.pendingResolvers]_vars

\* the terminal signal that took effect for a resolver
Won(path) ==
  IF path \in trace.failed THEN "Failure"
  ELSE IF trace.lightSets[path] > 0 \/ trace.decrements[path] > 0 THEN "Found"
  ELSE "none"

\* C39: for one resolver path only the first terminal signal processed takes
\* effect: a handler that finds the path in completedResolvers changes neither
\* the lights nor pendingResolvers and frees nothing; a resolver whose Failure
\* took effect never records a light; pendingResolvers is counted down at most
\* once for a path.
C39_FirstTerminalWins ==
  [][\A path \in ResolverPaths :
       /\ (path \in sess.completedResolvers /\ trace.terminals'[path] > trace.terminals[path]) =>
            /\ sess'.lights = sess.lights
            /\ sess'.pendingResolvers = sess.pendingResolvers
            /\ platform'.freeCalls = platform.freeCalls
            /\ sess'.completedResolvers = sess.completedResolvers
       /\ \A i \in 1..Len(sess.lights) :
            i <= Len(sess'.lights) /\ sess'.lights[i] = sess.lights[i]
       /\ trace.decrements'[path] <= 1
       /\ trace.lightSets'[path] <= trace.decrements'[path]
       /\ path \in trace.failed' => trace.lightSets'[path] = 0
       /\ trace.decrements'[path] = (IF path \in sess'.completedResolvers THEN 1 ELSE 0)
       /\ path \notin sess'.completedResolvers => trace.terminals'[path] = 0]_vars

\* a Failure was processed after the Found that recorded a light: the light
\* is still there and the resolver was counted down once
FoundThenFailure ==
  \E path \in ResolverPaths :
    /\ <<path, "Failure">> \in trace.ignored
    /\ Won(path) = "Found"
    /\ trace.lightSets[path] = 1
    /\ trace.decrements[path] = 1
    /\ Len(sess.lights) = 1

\* a Found was processed after the Failure of the same resolver: no light was
\* recorded and the resolver was counted down once
C39_Witness ==
  \E path \in ResolverPaths :
    /\ <<path, "Found">> \in trace.ignored
    /\ Won(path) = "Failure"
    /\ trace.lightSets[path] = 0
    /\ trace.decrements[path] = 1
    /\ sess.lights = <<>>

====
